---- MODULE Spec2Model ----
(***************************************************************************)
(* A model of the runner game's deterministic core: the tick-based         *)
(* simulation engine (frontend/src/lib/game/simulation.ts), its seeded     *)
(* random source (frontend/src/lib/game/rng.ts), the client that drives    *)
(* the engine live (frontend/src/game/GameCanvas.tsx) and the routes that  *)
(* start a run and settle it by replay (app/api/run/...).                  *)
(*                                                                         *)
(* Units.  The source computes with IEEE doubles; the model computes with  *)
(* integers in units that make the source's quantities whole:              *)
(*   time      1/TICK_RATE s  (one tick; dt = 1)                           *)
(*   length    1/TICK_RATE px (so x -= scrollSpeed * dt is x - scrollSpeed)*)
(*   velocity  px/s           (so y += v * dt is y + v in length units)    *)
(*   rates     1/10000 per second, exponents in eighths, draws in 1/1000   *)
(* The one place where the doubles of the source and exact arithmetic      *)
(* part, the countdown of the checkpoint window, is modelled as the        *)
(* doubles behave (see CheckpointTimerExpired).  Differences of elapsed    *)
(* times and entity positions are taken exactly.                           *)
(*                                                                         *)
(* Abstractions.  The xorshift stream of SeededRNG is replaced by a fixed   *)
(* stream per seed string (see the rng.ts section); Math.pow on a draw is  *)
(* computed in thousandths with integer square roots (MilliPow).  Outcomes *)
(* that depend on the drawn values (which tick an obstacle is hit at) are  *)
(* those of the model's stream; the control flow of every handler is the   *)
(* source's.  One signed-in user and one run row are modelled.             *)
(***************************************************************************)
EXTENDS Integers, Sequences, FiniteSets, TLC

\* ------------------------------------------------------------------------
\* Constants of simulation.ts
\* ------------------------------------------------------------------------
TICK_RATE == 60

Seconds(n) == n * TICK_RATE
Px(n) == n * TICK_RATE

PLAYER_X == 150
PLAYER_WIDTH == 50
PLAYER_HEIGHT == 80
PLAYER_SLIDE_HEIGHT == 40
GROUND_Y == 400
JUMP_VELOCITY == 0 - 600
GRAVITY == 1800
\* 0.5 s
SLIDE_DURATION == Seconds(1) \div 2

BASE_SCROLL_SPEED == 280
CHECKPOINT_INTERVAL == 60
CHECKPOINT_WINDOW == 5

\* 0.55 and 0.35 per second, in 1/10000
LAMBDA_OB_BASE == 5500
LAMBDA_RW_BASE == 3500
\* 0.8 s
MIN_SPAWN_GAP == (Seconds(1) * 8) \div 10

\* 2.0 and 2.0, in eighths
A_OB_BASE == 16
A_RW_BASE == 16

\* 10000n of the ledger arithmetic: basis points in one whole
BP_ONE == 10000

\* ------------------------------------------------------------------------
\* Bounds of the model
\* ------------------------------------------------------------------------
\* the live engine is advanced up to this tick
MaxTick == 3960
\* jump/slide inputs, exit calls and snapshots are issued at multiples of this tick
CallStride == 600
\* exitSafe/pause/forfeit calls that take effect, per run
MaxExitCalls == 2
\* snapshots are taken at multiples of this tick
SnapStride == 200

\* ------------------------------------------------------------------------
\* rng.ts: SeededRNG
\*
\* The engine consumes the generator only through next(), nextInt(),
\* getIndex() and advanceTo(); what it relies on is that the value of a draw
\* is a function of the seed string and of the draw's index.  The engine model
\* keeps exactly that: a generator is its seed and its index, and the value of
\* draw i of seed s is StreamValue(s, i), a fixed stream per seed with
\* DRAW_DEN equally spaced values in [0, 1).
\* ------------------------------------------------------------------------
\* next() returns RngValue / DRAW_DEN
DRAW_DEN == 1000
\* the generator state is kept below this modulus
STREAM_MOD == 32768
STREAM_MUL == 1229

\* the seed string folded into one number (the constructor hashes the seed
\* into the generator state)
RECURSIVE SeedFold(_, _)
SeedFold(seed, i) ==
    IF i = 0 THEN 0
    ELSE (SeedFold(seed, i - 1) * 17 + seed[i] * 31 + i) % STREAM_MOD

StreamStart(seed) == SeedFold(seed, Len(seed))
StreamAdd(seed) == 2 * (SeedFold(seed, Len(seed)) % 1024) + 1

\* the state update x -> a * x + c, and n updates in a row
StepCompose(f, g) ==
    [a |-> (f.a * g.a) % STREAM_MOD, c |-> (f.a * g.c + f.c) % STREAM_MOD]

RECURSIVE StepPow(_, _)
StepPow(f, n) ==
    IF n = 0 THEN [a |-> 1, c |-> 0]
    ELSE LET h == StepPow(f, n \div 2)
             sq == StepCompose(h, h)
         IN  IF n % 2 = 1 THEN StepCompose(f, sq) ELSE sq

StreamState(seed, i) ==
    LET f == StepPow([a |-> STREAM_MUL, c |-> StreamAdd(seed)], i)
    IN  (f.a * StreamStart(seed) + f.c) % STREAM_MOD

StreamValue(seed, i) == (StreamState(seed, i) * DRAW_DEN) \div STREAM_MOD

NewRng(seed) == [seed |-> seed, index |-> 0]

\* next(): one draw is consumed; RngValue is the value that call returned
RngNext(r) == [r EXCEPT !.index = @ + 1]
RngValue(r) == StreamValue(r.seed, r.index)

\* nextInt(min, max) = floor(next() * (max - min + 1)) + min
RngIntValue(r, min, max) == ((RngValue(r) * (max - min + 1)) \div DRAW_DEN) + min

GetIndex(r) == r.index

\* advanceTo(targetIndex): while (index < targetIndex) next()
AdvanceTo(r, targetIndex) ==
    IF r.index < targetIndex THEN [r EXCEPT !.index = targetIndex] ELSE r

\* ------------------------------------------------------------------------
\* rng.ts: SeededRNG, bit by bit.  A bigint that is not negative is the set
\* of the positions of its 1 bits, so that the shifts and xors of next() are
\* taken at the width the source takes them: a bigint has no fixed width.
\* ------------------------------------------------------------------------
\* a ^ b, a << k and a >> k on bigints
BitXor(a, b) == (a \ b) \cup (b \ a)
ShiftLeft(a, k) == {i + k : i \in a}
ShiftRight(a, k) == {i - k : i \in {j \in a : j >= k}}

\* a ^ b on bytes
ByteXor(a, b) ==
    LET Bit(i) == (((a \div 2^i) % 2) + ((b \div 2^i) % 2)) % 2
    IN Bit(0) + 2 * Bit(1) + 4 * Bit(2) + 8 * Bit(3)
         + 16 * Bit(4) + 32 * Bit(5) + 64 * Bit(6) + 128 * Bit(7)

\* hashToBytes(), first loop: the bytes after the first n characters; byte i
\* of the source's Uint8Array is element i + 1
RECURSIVE HashXorLoop(_, _)
HashXorLoop(input, n) ==
    IF n = 0 THEN [k \in 1..16 |-> 0]
    ELSE LET bytes == HashXorLoop(input, n - 1)
             i == n - 1
             c == input[n]
             b1 == [bytes EXCEPT ![(i % 16) + 1] = ByteXor(@, c % 256)]
         IN [b1 EXCEPT ![((i + 7) % 16) + 1] = ByteXor(@, (c * 31) % 256)]

\* hashToBytes(), second loop: the bytes after the mix of bytes 0 .. n - 1
RECURSIVE HashMixLoop(_, _)
HashMixLoop(bytes, n) ==
    IF n = 0 THEN bytes
    ELSE LET b == HashMixLoop(bytes, n - 1)
             i == n - 1
         IN [b EXCEPT ![i + 1] = (b[i + 1] * 17 + b[((i + 5) % 16) + 1]) % 256]

HashToBytes(input) == HashMixLoop(HashXorLoop(input, Len(input)), 16)

\* bytesToBigInt(): result |= BigInt(bytes[i]) << BigInt(i * 8)
BytesToBigInt(bytes) ==
    {8 * (p[1] - 1) + p[2] :
        p \in {q \in (1..Len(bytes)) \X (0..7) : (bytes[q[1]] \div 2^(q[2])) % 2 = 1}}

\* 0x853c49e6748fea9bn and 0xda3e39cb94b95bdbn, low byte first
S0_IF_ZERO == BytesToBigInt(<<155, 234, 143, 116, 230, 73, 60, 133>>)
S1_IF_ZERO == BytesToBigInt(<<219, 91, 185, 148, 203, 57, 62, 218>>)

\* new SeededRNG(seed)
SeededRngNew(seed) ==
    LET seedBytes == HashToBytes(seed)
        s0 == BytesToBigInt(SubSeq(seedBytes, 1, 8))
        s1 == BytesToBigInt(SubSeq(seedBytes, 9, 16))
    IN [ s0 |-> IF s0 = {} THEN S0_IF_ZERO ELSE s0,
         s1 |-> IF s1 = {} THEN S1_IF_ZERO ELSE s1,
         index |-> 0 ]

\* (a + b) & 0xffffffffffffffffn: the bits i .. 63 of the sum, given the carry
\* into bit i
RECURSIVE AddMasked(_, _, _, _)
AddMasked(a, b, i, carry) ==
    IF i > 63 THEN {}
    ELSE LET n == (IF i \in a THEN 1 ELSE 0) + (IF i \in b THEN 1 ELSE 0) + carry
         IN (IF n % 2 = 1 THEN {i} ELSE {}) \cup AddMasked(a, b, i + 1, n \div 2)

\* next(): the generator after the call, and the draw.  The draw is
\* Number(combined) / Number(2^64 - 1), a function of combined, which stands
\* for it here
SeededRngNext(g) ==
    LET s0 == g.s1
        x1 == BitXor(g.s0, ShiftLeft(g.s0, 23))
        x2 == BitXor(x1, ShiftRight(x1, 17))
        x3 == BitXor(x2, s0)
        s1 == BitXor(x3, ShiftRight(s0, 26))
    IN [ rng |-> [s0 |-> s0, s1 |-> s1, index |-> g.index + 1],
         value |-> AddMasked(s0, s1, 0, 0) ]

\* advanceTo() that draws until the index is past the target
RECURSIVE SeededRngAdvancePast(_, _)
SeededRngAdvancePast(g, targetIndex) ==
    IF g.index <= targetIndex
    THEN SeededRngAdvancePast(SeededRngNext(g).rng, targetIndex)
    ELSE [rng |-> g, error |-> "none"]

\* advanceTo(targetIndex): the generator after the call and the Error thrown
\* ("none": the call returns)
RECURSIVE SeededRngAdvanceTo(_, _)
SeededRngAdvanceTo(g, targetIndex) ==
    IF g.index < targetIndex
    THEN SeededRngAdvanceTo(SeededRngNext(g).rng, targetIndex)
    ELSE [rng |-> g, error |-> "none"]

\* ------------------------------------------------------------------------
\* Decimal strings of the ledger (bigint.toString() and BigInt(string))
\* ------------------------------------------------------------------------
RECURSIVE DecimalDigits(_)
DecimalDigits(n) ==
    IF n < 10 THEN <<n>> ELSE Append(DecimalDigits(n \div 10), n % 10)

\* the strings are sequences of digits; a leading MINUS stands for "-"
MINUS == 0 - 1

BigIntToString(n) ==
    IF n < 0 THEN <<MINUS>> \o DecimalDigits(0 - n) ELSE DecimalDigits(n)

RECURSIVE DigitsValue(_, _)
DigitsValue(str, i) ==
    IF i = 0 THEN 0 ELSE DigitsValue(str, i - 1) * 10 + str[i]

StringToBigInt(str) ==
    IF Len(str) > 0 /\ str[1] = MINUS
    THEN 0 - DigitsValue(Tail(str), Len(str) - 1)
    ELSE DigitsValue(str, Len(str))

\* floor(b * m / 10000) of the bigint ledger, without a product wider than
\* the model checker's integers: b = 10000 q + r
\* the quotient rounded to the nearest integer instead of down
LedgerScaleRounded(b, m) ==
    (b \div BP_ONE) * m + ((b % BP_ONE) * m + BP_ONE \div 2) \div BP_ONE

LedgerScale(b, m) ==
    (b \div BP_ONE) * m + ((b % BP_ONE) * m) \div BP_ONE

\* ------------------------------------------------------------------------
\* Fixed-point power for the bias sampling (Math.pow): bases in 1/1000,
\* exponents in eighths
\* ------------------------------------------------------------------------
Isqrt(n) == CHOOSE r \in 0..1000 : r * r <= n /\ (r + 1) * (r + 1) > n

MilliMul(a, b) == (a * b) \div DRAW_DEN
MilliSqrt(a) == Isqrt(a * DRAW_DEN)

RECURSIVE MilliIntPow(_, _)
MilliIntPow(a, k) == IF k = 0 THEN DRAW_DEN ELSE MilliMul(MilliIntPow(a, k - 1), a)

MilliPow(a, eighths) ==
    MilliMul(MilliIntPow(a, eighths \div 8),
             MilliIntPow(MilliSqrt(MilliSqrt(MilliSqrt(a))), eighths % 8))

\* ------------------------------------------------------------------------
\* simulation.ts: GameSimulation
\* ------------------------------------------------------------------------
\* px/s, which is length units per tick
CalculateScrollSpeed(params, checkpointIndex) ==
    LET step == IF params.curveMode = "disproportional"
                THEN 18 + (60 * params.difficulty * params.difficulty) \div 10000
                ELSE 18 + (45 * params.difficulty) \div 100
    IN BASE_SCROLL_SPEED + step * checkpointIndex

NewSimulation(seed, params, lockedBankroll, runCount, rngIndex) ==
    LET rng0 == NewRng(seed)
        rng == IF rngIndex > 0 THEN AdvanceTo(rng0, rngIndex) ELSE rng0
    IN [ state |-> [ tick |-> 0,
                     elapsedTime |-> 0,
                     playerY |-> Px(GROUND_Y),
                     playerVelocityY |-> 0,
                     isJumping |-> FALSE,
                     isSliding |-> FALSE,
                     slideCooldown |-> 0,
                     bankroll |-> lockedBankroll,
                     scrollSpeed |-> CalculateScrollSpeed(params, 0),
                     checkpointIndex |-> 0,
                     obstacles |-> <<>>,
                     rewards |-> <<>>,
                     rngIndex |-> GetIndex(rng),
                     isCheckpointWindow |-> FALSE,
                     checkpointWindowTimer |-> 0,
                     isRunOver |-> FALSE,
                     exitType |-> "null" ],
         rng |-> rng,
         params |-> params,
         runCount |-> runCount,
         events |-> <<>>,
         lastObstacleSpawnTime |-> 0,
         lastRewardSpawnTime |-> 0,
         nextEntityId |-> 0 ]

IsIncentiveRun(e) ==
    LET n == e.runCount IN n = 1 \/ n = 5 \/ (n > 5 /\ (n - 5) % 7 = 0)

\* rates in 1/10000 per second
GetSpawnRates(e) ==
    LET d == e.params.difficulty
        ob == IF e.params.curveMode = "disproportional"
              THEN LAMBDA_OB_BASE + (11000 * d * d) \div 10000
              ELSE LAMBDA_OB_BASE + (9000 * d) \div 100
        rw == IF e.params.curveMode = "disproportional"
              THEN LAMBDA_RW_BASE + (4500 * d * d) \div 10000
              ELSE LAMBDA_RW_BASE + (3500 * d) \div 100
    IN IF IsIncentiveRun(e)
       THEN [lambdaOb |-> (ob * 80) \div 100, lambdaRw |-> (rw * 125) \div 100]
       ELSE [lambdaOb |-> ob, lambdaRw |-> rw]

\* exponents in eighths
GetBiasExponents(e) ==
    LET d == e.params.difficulty
        ob == CASE e.params.curveMode = "static" -> A_OB_BASE
                [] e.params.curveMode = "proportional" -> A_OB_BASE + (16 * d) \div 100
                [] OTHER -> A_OB_BASE + (28 * d * d) \div 10000
        rw == CASE e.params.curveMode = "static" -> A_RW_BASE
                [] e.params.curveMode = "proportional" -> A_RW_BASE + (12 * d) \div 100
                [] OTHER -> A_RW_BASE + (20 * d * d) \div 10000
    IN IF IsIncentiveRun(e)
       THEN [aOb |-> (ob * 75) \div 100, aRw |-> (rw * 75) \div 100]
       ELSE [aOb |-> ob, aRw |-> rw]

\* percentMin + (percentMax - percentMin) * x in 1/1000 percent, with the
\* generator after the draw
SampleObstaclePct(e) ==
    LET rng == RngNext(e.rng)
        x == DRAW_DEN - MilliPow(DRAW_DEN - RngValue(rng), GetBiasExponents(e).aOb)
    IN [rng |-> rng,
        pct |-> e.params.percentMin * DRAW_DEN
                + (e.params.percentMax - e.params.percentMin) * x]

SampleRewardPct(e) ==
    LET rng == RngNext(e.rng)
        x == MilliPow(RngValue(rng), GetBiasExponents(e).aRw)
    IN [rng |-> rng,
        pct |-> e.params.percentMin * DRAW_DEN
                + (e.params.percentMax - e.params.percentMin) * x]

\* Math.round(pct * 100) of a pct in 1/1000 percent
RoundToBp(pct) == (pct + 5) \div 10

\* rng.next() < lambda / TICK_RATE
DrawBelowRate(rng, lambda) ==
    RngValue(rng) * TICK_RATE * 10000 < lambda * DRAW_DEN

\* maybeSpawnObstacle() that reads the id counter and does not advance it
MaybeSpawnObstacleSameId(e) ==
    LET timeSinceLastSpawn == e.state.elapsedTime - e.lastObstacleSpawnTime
        hasReward == \E i \in 1..Len(e.state.rewards) : e.state.rewards[i].x > Px(850)
        r1 == RngNext(e.rng)
        r2 == RngNext(r1)
        isOverhead == RngValue(r2) * 10 < 4 * DRAW_DEN
        smp == SampleObstaclePct([e EXCEPT !.rng = r2])
        obstacle == [ id |-> [kind |-> "ob", n |-> e.nextEntityId],
                      x |-> Px(900),
                      y |-> IF isOverhead THEN Px(GROUND_Y - 120) ELSE Px(GROUND_Y),
                      type |-> IF isOverhead THEN "overhead" ELSE "ground",
                      width |-> IF isOverhead THEN Px(100) ELSE Px(40),
                      height |-> Px(40),
                      pctBp |-> RoundToBp(smp.pct),
                      hit |-> FALSE ]
    IN IF timeSinceLastSpawn < MIN_SPAWN_GAP THEN e
       ELSE IF hasReward THEN e
       ELSE IF DrawBelowRate(r1, GetSpawnRates(e).lambdaOb)
       THEN [e EXCEPT !.rng = smp.rng,
                      !.state.obstacles = Append(@, obstacle),
                      !.lastObstacleSpawnTime = e.state.elapsedTime]
       ELSE [e EXCEPT !.rng = r1]

\* maybeSpawnObstacle() without its test of the time since the last spawn
MaybeSpawnObstacleNoGap(e) ==
    LET hasReward == \E i \in 1..Len(e.state.rewards) : e.state.rewards[i].x > Px(850)
        r1 == RngNext(e.rng)
        r2 == RngNext(r1)
        isOverhead == RngValue(r2) * 10 < 4 * DRAW_DEN
        smp == SampleObstaclePct([e EXCEPT !.rng = r2])
        obstacle == [ id |-> [kind |-> "ob", n |-> e.nextEntityId],
                      x |-> Px(900),
                      y |-> IF isOverhead THEN Px(GROUND_Y - 120) ELSE Px(GROUND_Y),
                      type |-> IF isOverhead THEN "overhead" ELSE "ground",
                      width |-> IF isOverhead THEN Px(100) ELSE Px(40),
                      height |-> Px(40),
                      pctBp |-> RoundToBp(smp.pct),
                      hit |-> FALSE ]
    IN IF hasReward THEN e
       ELSE IF DrawBelowRate(r1, GetSpawnRates(e).lambdaOb)
       THEN [e EXCEPT !.rng = smp.rng,
                      !.nextEntityId = @ + 1,
                      !.state.obstacles = Append(@, obstacle),
                      !.lastObstacleSpawnTime = e.state.elapsedTime]
       ELSE [e EXCEPT !.rng = r1]

MaybeSpawnObstacle(e) ==
    LET timeSinceLastSpawn == e.state.elapsedTime - e.lastObstacleSpawnTime
        hasReward == \E i \in 1..Len(e.state.rewards) : e.state.rewards[i].x > Px(850)
        r1 == RngNext(e.rng)
        r2 == RngNext(r1)
        isOverhead == RngValue(r2) * 10 < 4 * DRAW_DEN
        smp == SampleObstaclePct([e EXCEPT !.rng = r2])
        obstacle == [ id |-> [kind |-> "ob", n |-> e.nextEntityId],
                      x |-> Px(900),
                      y |-> IF isOverhead THEN Px(GROUND_Y - 120) ELSE Px(GROUND_Y),
                      type |-> IF isOverhead THEN "overhead" ELSE "ground",
                      width |-> IF isOverhead THEN Px(100) ELSE Px(40),
                      height |-> Px(40),
                      pctBp |-> RoundToBp(smp.pct),
                      hit |-> FALSE ]
    IN IF timeSinceLastSpawn < MIN_SPAWN_GAP THEN e
       ELSE IF hasReward THEN e
       ELSE IF DrawBelowRate(r1, GetSpawnRates(e).lambdaOb)
       THEN [e EXCEPT !.rng = smp.rng,
                      !.nextEntityId = @ + 1,
                      !.state.obstacles = Append(@, obstacle),
                      !.lastObstacleSpawnTime = e.state.elapsedTime]
       ELSE [e EXCEPT !.rng = r1]

\* maybeSpawnReward() that does not look for an obstacle in the spawn lane
MaybeSpawnRewardUnchecked(e) ==
    LET timeSinceLastSpawn == e.state.elapsedTime - e.lastRewardSpawnTime
        r1 == RngNext(e.rng)
        smp == SampleRewardPct([e EXCEPT !.rng = r1])
        r3 == RngNext(smp.rng)
        reward == [ id |-> [kind |-> "rw", n |-> e.nextEntityId],
                    x |-> Px(900),
                    y |-> Px(GROUND_Y - 20 - RngIntValue(r3, 0, 100)),
                    width |-> Px(30),
                    height |-> Px(30),
                    pctBp |-> RoundToBp(smp.pct),
                    collected |-> FALSE ]
    IN IF timeSinceLastSpawn < MIN_SPAWN_GAP THEN e
       ELSE IF DrawBelowRate(r1, GetSpawnRates(e).lambdaRw)
       THEN [e EXCEPT !.rng = r3,
                      !.nextEntityId = @ + 1,
                      !.state.rewards = Append(@, reward),
                      !.lastRewardSpawnTime = e.state.elapsedTime]
       ELSE [e EXCEPT !.rng = r1]

MaybeSpawnReward(e) ==
    LET timeSinceLastSpawn == e.state.elapsedTime - e.lastRewardSpawnTime
        hasObstacle == \E i \in 1..Len(e.state.obstacles) : e.state.obstacles[i].x > Px(850)
        r1 == RngNext(e.rng)
        smp == SampleRewardPct([e EXCEPT !.rng = r1])
        r3 == RngNext(smp.rng)
        reward == [ id |-> [kind |-> "rw", n |-> e.nextEntityId],
                    x |-> Px(900),
                    y |-> Px(GROUND_Y - 20 - RngIntValue(r3, 0, 100)),
                    width |-> Px(30),
                    height |-> Px(30),
                    pctBp |-> RoundToBp(smp.pct),
                    collected |-> FALSE ]
    IN IF timeSinceLastSpawn < MIN_SPAWN_GAP THEN e
       ELSE IF hasObstacle THEN e
       ELSE IF DrawBelowRate(r1, GetSpawnRates(e).lambdaRw)
       THEN [e EXCEPT !.rng = r3,
                      !.nextEntityId = @ + 1,
                      !.state.rewards = Append(@, reward),
                      !.lastRewardSpawnTime = e.state.elapsedTime]
       ELSE [e EXCEPT !.rng = r1]

\* processInput() that starts a slide whatever the cooldown
ProcessInputNoCooldown(e, input) ==
    IF e.state.isRunOver THEN e
    ELSE IF input.type = "jump" /\ ~e.state.isJumping /\ ~e.state.isSliding
    THEN [e EXCEPT !.state.isJumping = TRUE, !.state.playerVelocityY = JUMP_VELOCITY]
    ELSE IF input.type = "slide" /\ ~e.state.isSliding /\ ~e.state.isJumping
    THEN [e EXCEPT !.state.isSliding = TRUE, !.state.slideCooldown = SLIDE_DURATION * 2]
    ELSE e

ProcessInput(e, input) ==
    IF e.state.isRunOver THEN e
    ELSE IF input.type = "jump" /\ ~e.state.isJumping /\ ~e.state.isSliding
    THEN [e EXCEPT !.state.isJumping = TRUE, !.state.playerVelocityY = JUMP_VELOCITY]
    ELSE IF input.type = "slide" /\ ~e.state.isSliding /\ ~e.state.isJumping
            /\ e.state.slideCooldown <= 0
    THEN [e EXCEPT !.state.isSliding = TRUE, !.state.slideCooldown = SLIDE_DURATION * 2]
    ELSE e

BoxesIntersect(a, b) ==
    /\ a.x < b.x + b.width
    /\ a.x + a.width > b.x
    /\ a.y < b.y + b.height
    /\ a.y + a.height > b.y

EntityBox(en) == [x |-> en.x, y |-> en.y - en.height, width |-> en.width, height |-> en.height]

PlayerBox(s) ==
    LET playerHeight == IF s.isSliding THEN Px(PLAYER_SLIDE_HEIGHT) ELSE Px(PLAYER_HEIGHT)
        playerY == IF s.isSliding THEN Px(GROUND_Y) ELSE s.playerY
    IN [x |-> Px(PLAYER_X), y |-> playerY - playerHeight,
        width |-> Px(PLAYER_WIDTH), height |-> playerHeight]

\* the player physics and the slide state of tick()
UpdatePlayer(s) ==
    LET v == s.playerVelocityY + GRAVITY \div TICK_RATE
        y == s.playerY + v
        s1 == IF ~s.isJumping THEN s
              ELSE IF y >= Px(GROUND_Y)
              THEN [s EXCEPT !.playerY = Px(GROUND_Y), !.playerVelocityY = 0,
                             !.isJumping = FALSE]
              ELSE [s EXCEPT !.playerY = y, !.playerVelocityY = v]
    IN IF s1.isSliding
       THEN [s1 EXCEPT !.slideCooldown = @ - 1,
                       !.isSliding = ~(s1.slideCooldown - 1 <= SLIDE_DURATION)]
       ELSE IF s1.slideCooldown > 0
       THEN [s1 EXCEPT !.slideCooldown = @ - 1]
       ELSE s1

MoveEntities(s) ==
    [s EXCEPT !.obstacles = [i \in 1..Len(s.obstacles) |->
                                [s.obstacles[i] EXCEPT !.x = @ - s.scrollSpeed]],
              !.rewards = [i \in 1..Len(s.rewards) |->
                                [s.rewards[i] EXCEPT !.x = @ - s.scrollSpeed]]]

\* the ledger is tested with < where the source tests <=
LedgerBelowZero(bankroll) == bankroll < 0

\* if (this.state.bankroll <= 0n)
LedgerEmpty(bankroll) == bankroll <= 0

\* the body of the obstacle loop for the obstacle at position i
HitObstacle(e, i) ==
    LET ob == e.state.obstacles[i]
        newBankroll == LedgerScale(e.state.bankroll, BP_ONE - ob.pctBp)
        ev == [ tick |-> e.state.tick, type |-> "obstacle_hit",
                data |-> [ obstacleId |-> ob.id, pctBp |-> ob.pctBp,
                           oldBankroll |-> BigIntToString(e.state.bankroll),
                           newBankroll |-> BigIntToString(newBankroll) ] ]
        e1 == [e EXCEPT !.state.obstacles[i].hit = TRUE,
                        !.events = Append(@, ev),
                        !.state.bankroll = newBankroll]
    IN IF LedgerEmpty(newBankroll)
       THEN [e1 EXCEPT !.state.bankroll = 0,
                       !.state.isRunOver = TRUE,
                       !.state.exitType = "loss",
                       !.events = Append(@, [tick |-> e.state.tick, type |-> "loss",
                                              data |-> <<>>])]
       ELSE e1

\* the obstacle loop without its test of ob.hit
RECURSIVE CollideObstaclesAgain(_, _, _)
CollideObstaclesAgain(e, playerBox, i) ==
    IF i > Len(e.state.obstacles) THEN e
    ELSE IF BoxesIntersect(playerBox, EntityBox(e.state.obstacles[i]))
    THEN CollideObstaclesAgain(HitObstacle(e, i), playerBox, i + 1)
    ELSE CollideObstaclesAgain(e, playerBox, i + 1)

RECURSIVE CollideObstacles(_, _, _)
CollideObstacles(e, playerBox, i) ==
    IF i > Len(e.state.obstacles) THEN e
    ELSE IF e.state.obstacles[i].hit THEN CollideObstacles(e, playerBox, i + 1)
    ELSE IF BoxesIntersect(playerBox, EntityBox(e.state.obstacles[i]))
    THEN CollideObstacles(HitObstacle(e, i), playerBox, i + 1)
    ELSE CollideObstacles(e, playerBox, i + 1)

\* the reward applied with the factor of an obstacle
CollectRewardAsObstacle(e, i) ==
    LET rw == e.state.rewards[i]
        newBankroll == LedgerScale(e.state.bankroll, BP_ONE - rw.pctBp)
        ev == [ tick |-> e.state.tick, type |-> "reward_collected",
                data |-> [ rewardId |-> rw.id, pctBp |-> rw.pctBp,
                           oldBankroll |-> BigIntToString(e.state.bankroll),
                           newBankroll |-> BigIntToString(newBankroll) ] ]
    IN [e EXCEPT !.state.rewards[i].collected = TRUE,
                 !.events = Append(@, ev),
                 !.state.bankroll = newBankroll]

CollectReward(e, i) ==
    LET rw == e.state.rewards[i]
        newBankroll == LedgerScale(e.state.bankroll, BP_ONE + rw.pctBp)
        ev == [ tick |-> e.state.tick, type |-> "reward_collected",
                data |-> [ rewardId |-> rw.id, pctBp |-> rw.pctBp,
                           oldBankroll |-> BigIntToString(e.state.bankroll),
                           newBankroll |-> BigIntToString(newBankroll) ] ]
    IN [e EXCEPT !.state.rewards[i].collected = TRUE,
                 !.events = Append(@, ev),
                 !.state.bankroll = newBankroll]

RECURSIVE CollideRewards(_, _, _)
CollideRewards(e, playerBox, i) ==
    IF i > Len(e.state.rewards) THEN e
    ELSE IF e.state.rewards[i].collected THEN CollideRewards(e, playerBox, i + 1)
    ELSE IF BoxesIntersect(playerBox, EntityBox(e.state.rewards[i]))
    THEN CollideRewards(CollectReward(e, i), playerBox, i + 1)
    ELSE CollideRewards(e, playerBox, i + 1)

OnScreen(en) == en.x > Px(0 - 100)

RemoveOffScreen(s) ==
    [s EXCEPT !.obstacles = SelectSeq(@, OnScreen), !.rewards = SelectSeq(@, OnScreen)]

\* checkpointWindowTimer <= 0 after the subtraction of dt.  The timer counts
\* 1/TICK_RATE s; in the doubles of the source 5 - 300 * (1 / 60) is a positive
\* residue (about 1.3e-14), so the comparison first succeeds at the 301st
\* subtraction, where the exact value is below zero.
\* the comparison as exact arithmetic would make it
CheckpointTimerExpiredExact(timer) == timer <= 0

CheckpointTimerExpired(timer) == timer < 0

\* Math.floor(this.state.elapsedTime / CHECKPOINT_INTERVAL)
\* the index taken of the tick counter instead of the elapsed seconds
NewCheckpointIndexOfTicks(e) == e.state.tick \div CHECKPOINT_INTERVAL

NewCheckpointIndex(e) == e.state.elapsedTime \div Seconds(CHECKPOINT_INTERVAL)

UpdateCheckpoint(e) ==
    LET newCheckpointIndex == NewCheckpointIndex(e)
        e1 == IF newCheckpointIndex > e.state.checkpointIndex
              THEN [e EXCEPT !.state.checkpointIndex = newCheckpointIndex,
                             !.state.scrollSpeed = CalculateScrollSpeed(e.params, newCheckpointIndex),
                             !.state.isCheckpointWindow = TRUE,
                             !.state.checkpointWindowTimer = Seconds(CHECKPOINT_WINDOW),
                             !.events = Append(@, [tick |-> e.state.tick, type |-> "checkpoint",
                                                    data |-> [index |-> newCheckpointIndex]])]
              ELSE e
    IN IF ~e1.state.isCheckpointWindow THEN e1
       ELSE IF CheckpointTimerExpired(e1.state.checkpointWindowTimer - 1)
       THEN [e1 EXCEPT !.state.isCheckpointWindow = FALSE, !.state.checkpointWindowTimer = 0]
       ELSE [e1 EXCEPT !.state.checkpointWindowTimer = @ - 1]

\* this.state.tick++; this.state.elapsedTime = this.state.tick / TICK_RATE
\* the clock is left where it was
AdvanceClockTickOnly(e) ==
    [e EXCEPT !.state.tick = @ + 1]

AdvanceClock(e) ==
    [e EXCEPT !.state.tick = @ + 1,
              !.state.elapsedTime = (Seconds(1) * (e.state.tick + 1)) \div TICK_RATE]

\* this.state.rngIndex = this.rng.getIndex()
\* the recorded index is left where it was
RecordRngIndexSkipped(e) == e

RecordRngIndex(e) == [e EXCEPT !.state.rngIndex = GetIndex(e.rng)]

\* the spawn step taken inside a checkpoint window too
SpawnEntitiesInWindow(e) == MaybeSpawnReward(MaybeSpawnObstacle(e))

\* if (!this.state.isCheckpointWindow) { maybeSpawnObstacle(); maybeSpawnReward() }
SpawnEntities(e) ==
    IF ~e.state.isCheckpointWindow
    THEN MaybeSpawnReward(MaybeSpawnObstacle(e))
    ELSE e

\* tick() past its test of isRunOver
Advance(e) ==
    LET e1 == AdvanceClock(e)
        e2 == [e1 EXCEPT !.state = UpdatePlayer(@)]
        e3 == SpawnEntities(e2)
        e4 == [e3 EXCEPT !.state = MoveEntities(@)]
        box == PlayerBox(e4.state)
        e5 == CollideRewards(CollideObstacles(e4, box, 1), box, 1)
        e6 == UpdateCheckpoint([e5 EXCEPT !.state = RemoveOffScreen(@)])
    IN RecordRngIndex(e6)

\* tick() without its test of isRunOver
TickUnguarded(e) == Advance(e)

Tick(e) ==
    IF e.state.isRunOver THEN e ELSE Advance(e)

\* exitSafe(), pause() and forfeit(); error is the message of the thrown
\* Error, "none" when the call returns
\* exitSafe() without its test of the checkpoint window
ExitSafeUnguarded(e) ==
    [sim |-> [e EXCEPT !.state.isRunOver = TRUE,
                       !.state.exitType = "safe",
                       !.events = Append(@, [tick |-> e.state.tick,
                                              type |-> "checkpoint_exit",
                                              data |-> [bankroll |-> BigIntToString(e.state.bankroll)]])],
     error |-> "none"]

ExitSafe(e) ==
    IF ~e.state.isCheckpointWindow
    THEN [sim |-> e, error |-> "Cannot exit outside checkpoint window"]
    ELSE [sim |-> [e EXCEPT !.state.isRunOver = TRUE,
                            !.state.exitType = "safe",
                            !.events = Append(@, [tick |-> e.state.tick,
                                                   type |-> "checkpoint_exit",
                                                   data |-> [bankroll |-> BigIntToString(e.state.bankroll)]])],
          error |-> "none"]

Pause(e) ==
    IF ~e.state.isCheckpointWindow
    THEN [sim |-> e, error |-> "Cannot pause outside checkpoint window"]
    ELSE [sim |-> [e EXCEPT !.state.isRunOver = TRUE,
                            !.state.exitType = "pause",
                            !.events = Append(@, [tick |-> e.state.tick,
                                                   type |-> "checkpoint_pause",
                                                   data |-> [bankroll |-> BigIntToString(e.state.bankroll)]])],
          error |-> "none"]

\* forfeit() that leaves the ledger as it is
ForfeitKeepsLedger(e) ==
    [sim |-> [e EXCEPT !.state.isRunOver = TRUE,
                       !.state.exitType = "forfeit",
                       !.events = Append(@, [tick |-> e.state.tick, type |-> "forfeit",
                                              data |-> <<>>])],
     error |-> "none"]

Forfeit(e) ==
    [sim |-> [e EXCEPT !.state.isRunOver = TRUE,
                       !.state.exitType = "forfeit",
                       !.state.bankroll = 0,
                       !.events = Append(@, [tick |-> e.state.tick, type |-> "forfeit",
                                              data |-> <<>>])],
     error |-> "none"]

\* getSnapshot(): JSON of the state with the ledger as a decimal string, and
\* the three private fields
GetSnapshot(e) ==
    [ state |-> [e.state EXCEPT !.bankroll = BigIntToString(@)],
      lastObstacleSpawnTime |-> e.lastObstacleSpawnTime,
      lastRewardSpawnTime |-> e.lastRewardSpawnTime,
      nextEntityId |-> e.nextEntityId ]

\* fromSnapshot() that leaves the entity id counter of the new instance
FromSnapshotFreshIds(data, seed, params, runCount) ==
    LET sim == NewSimulation(seed, params, 0, runCount, data.state.rngIndex)
    IN [sim EXCEPT !.state = [data.state EXCEPT !.bankroll = StringToBigInt(@)],
                   !.lastObstacleSpawnTime = data.lastObstacleSpawnTime,
                   !.lastRewardSpawnTime = data.lastRewardSpawnTime]

FromSnapshot(data, seed, params, runCount) ==
    LET sim == NewSimulation(seed, params, 0, runCount, data.state.rngIndex)
    IN [sim EXCEPT !.state = [data.state EXCEPT !.bankroll = StringToBigInt(@)],
                   !.lastObstacleSpawnTime = data.lastObstacleSpawnTime,
                   !.lastRewardSpawnTime = data.lastRewardSpawnTime,
                   !.nextEntityId = data.nextEntityId]

\* a property that the parsed JSON does not have reads as undefined
UNDEFINED == "undefined"

Property(object, name) == IF name \in DOMAIN object THEN object[name] ELSE UNDEFINED

\* fromSnapshot() of any parsed JSON object: data.state.rngIndex throws a
\* TypeError when data.state is undefined, and so does BigInt(undefined);
\* no other property is looked at before it is copied. An rngIndex of
\* undefined leaves the constructor its default of 0, and the spread copies
\* the properties data.state has
FromSnapshotOfJson(data, seed, params, runCount) ==
    IF "state" \notin DOMAIN data \/ "bankroll" \notin DOMAIN data.state
    THEN [sim |-> <<>>, error |-> "TypeError"]
    ELSE LET rngIndex == IF "rngIndex" \in DOMAIN data.state
                         THEN data.state.rngIndex ELSE 0
             sim == NewSimulation(seed, params, 0, runCount, rngIndex)
         IN [sim |-> << [sim EXCEPT
                           !.state = [name \in DOMAIN data.state |->
                                         IF name = "bankroll"
                                         THEN StringToBigInt(data.state[name])
                                         ELSE data.state[name]],
                           !.lastObstacleSpawnTime = Property(data, "lastObstacleSpawnTime"),
                           !.lastRewardSpawnTime = Property(data, "lastRewardSpawnTime"),
                           !.nextEntityId = Property(data, "nextEntityId")] >>,
             error |-> "none"]

\* ------------------------------------------------------------------------
\* The engine driven by its callers
\* ------------------------------------------------------------------------
VARIABLES
    sim,       \* the GameSimulation instance
    lastCall,  \* the last call made on sim: its name and the Error it threw ("none")
    restored,  \* <<>>, or the instance built by fromSnapshot, and the length
               \* of sim's event log and sim's entity id counter when the
               \* snapshot was taken
    db,        \* the database of the web application: the user row and the run rows
    page,      \* the game page in the browser: the start response it was given,
               \* simRef, inputsRef and completedRef of GameCanvas
    request,   \* the completion requests on their way to the server
    route,     \* the completion route: where its handler stands, the body it
               \* was given, its simulation and its input cursor
    responses, \* the responses the routes have sent to the client
    gen,       \* values of rng.ts held by a caller outside a run: SeededRNG
               \* instances with the draws they returned, combined seeds
    backend,   \* the backend server: the run row, the sessions of its
               \* sockets, activeSessions and the pending grace timers
    handlers   \* the request handlers of the servers that are between two of
               \* their awaits: where each stands and what it has read so far

engineVars == <<sim, lastCall, restored>>
routeVars == <<db, page, request, route, responses>>
restVars == <<gen, backend, handlers>>
vars == <<sim, lastCall, restored, db, page, request, route, responses, gen, backend,
         handlers>>

\* seed strings are sequences of character codes; 58 is ":"
COLON == 58

\* the three strings joined without the separators
CombineSeedsUnseparated(serverSeed, clientSeed, runId) ==
    serverSeed \o clientSeed \o runId

\* combineSeeds(serverSeed, clientSeed, runId)
CombineSeeds(serverSeed, clientSeed, runId) ==
    serverSeed \o <<COLON>> \o clientSeed \o <<COLON>> \o runId

\* "19" and "5d" (server seeds are hexadecimal strings), and "r1"
ServerSeeds == {<<49, 57>>, <<53, 100>>}
RunIds == {<<114, 49>>}

Seeds == {CombineSeeds(ss, <<>>, id) : ss \in ServerSeeds, id \in RunIds}

ParamSets == {[difficulty |-> 0, percentMin |-> 5, percentMax |-> 25, curveMode |-> "static"]}
Bankrolls == {20, 10000000}
RunCounts == {1, 2}

InputTypes == {"jump", "slide"}

\* calls other than tick() arrive at the call ticks, or once the run is over
AtCallTick(e) == e.state.tick % CallStride = 0 \/ e.state.isRunOver

ExitEventTypes == {"checkpoint_exit", "checkpoint_pause", "forfeit"}

\* the exit calls that took effect so far
ExitCalls(e) == Cardinality({i \in 1..Len(e.events) : e.events[i].type \in ExitEventTypes})

\* the same call made on the restored instance, when there is one
OnRestored(Op(_), r) ==
    IF r = <<>> THEN r ELSE <<[r[1] EXCEPT !.engine = Op(@)]>>

\* nobody has signed in: no run rows, no page, no request
\* no caller holds a value of rng.ts, and the backend server is not running
NoLibraryCalls == gen = <<>>
NoBackend == backend = <<>>
NoHandlers == handlers = <<>>

NoWebSession ==
    /\ db = [user |-> [balance |-> 0, runCount |-> 0], runs |-> <<>>]
    /\ page = [runData |-> <<>>, sim |-> <<>>, inputs |-> <<>>, completed |-> FALSE]
    /\ request = <<>>
    /\ route = [pc |-> "idle", body |-> <<>>, sim |-> <<>>, inputs |-> <<>>,
                currentInputIdx |-> 0]
    /\ responses = <<>>

Init ==
    /\ \E seed \in Seeds, params \in ParamSets, b \in Bankrolls, n \in RunCounts :
          sim = NewSimulation(seed, params, b, n, 0)
    /\ lastCall = [op |-> "new", error |-> "none"]
    /\ restored = <<>>
    /\ NoWebSession
    /\ NoLibraryCalls
    /\ NoBackend
    /\ NoHandlers

DoTick ==
    /\ sim.state.tick < MaxTick
    /\ sim' = Tick(sim)
    /\ restored' = OnRestored(Tick, restored)
    /\ lastCall' = [op |-> "tick", error |-> "none"]
    /\ UNCHANGED <<routeVars, restVars>>

DoProcessInput ==
    /\ AtCallTick(sim)
    /\ \E type \in InputTypes :
          LET input == [type |-> type, tick |-> sim.state.tick]
              Apply(e) == ProcessInput(e, input)
          IN /\ sim' = ProcessInput(sim, input)
             /\ restored' = OnRestored(Apply, restored)
    /\ lastCall' = [op |-> "processInput", error |-> "none"]
    /\ UNCHANGED <<routeVars, restVars>>

DoExitSafe ==
    /\ AtCallTick(sim)
    /\ ExitCalls(sim) < MaxExitCalls
    /\ sim' = ExitSafe(sim).sim
    /\ lastCall' = [op |-> "exitSafe", error |-> ExitSafe(sim).error]
    /\ UNCHANGED <<restored, routeVars, restVars>>

DoPause ==
    /\ AtCallTick(sim)
    /\ ExitCalls(sim) < MaxExitCalls
    /\ sim' = Pause(sim).sim
    /\ lastCall' = [op |-> "pause", error |-> Pause(sim).error]
    /\ UNCHANGED <<restored, routeVars, restVars>>

DoForfeit ==
    /\ AtCallTick(sim)
    /\ ExitCalls(sim) < MaxExitCalls
    /\ sim' = Forfeit(sim).sim
    /\ lastCall' = [op |-> "forfeit", error |-> Forfeit(sim).error]
    /\ UNCHANGED <<restored, routeVars, restVars>>

Next == DoTick \/ DoProcessInput \/ DoExitSafe \/ DoPause \/ DoForfeit

Spec == Init /\ [][Next]_vars

\* ------------------------------------------------------------------------
\* Properties of the engine
\* ------------------------------------------------------------------------
\* the events a step appended to the log
NewEvents == SubSeq(sim'.events, Len(sim.events) + 1, Len(sim'.events))

\* C3: once isRunOver is true, no later tick, processInput, exitSafe, pause
\* or forfeit call changes the exit type, the bankroll or the event log
C3_TerminalAbsorbing ==
    [][sim.state.isRunOver =>
          /\ sim'.state.exitType = sim.state.exitType
          /\ sim'.state.bankroll = sim.state.bankroll
          /\ sim'.events = sim.events]_vars

\* C4: the bankroll is never negative, and when an obstacle hit of a tick
\* brings it to 0, the run is over with exit type loss at the end of that
\* tick and a loss event of that tick is in the log
C4_LossAtZero ==
    /\ [](sim.state.bankroll >= 0)
    /\ [][(\E i \in 1..Len(NewEvents) :
              /\ NewEvents[i].type = "obstacle_hit"
              /\ NewEvents[i].data.newBankroll = BigIntToString(0))
          => /\ sim'.state.isRunOver
             /\ sim'.state.exitType = "loss"
             /\ \E j \in 1..Len(sim'.events) :
                   /\ sim'.events[j].type = "loss"
                   /\ sim'.events[j].tick = sim'.state.tick]_vars

\* a run an obstacle hit has ended: the ledger is 0 and the log ends with the
\* hit that emptied it and the loss event
C4_Witness ==
    /\ sim.state.isRunOver
    /\ sim.state.exitType = "loss"
    /\ sim.state.bankroll = 0
    /\ Len(sim.events) >= 2
    /\ sim.events[Len(sim.events)].type = "loss"
    /\ sim.events[Len(sim.events) - 1].type = "obstacle_hit"
    /\ sim.events[Len(sim.events) - 1].data.newBankroll = BigIntToString(0)

\* C5: exit type safe or pause is only set from a state whose checkpoint
\* window flag is set, and exit type loss only from a state whose flag is
\* clear
C5_StateMachine ==
    [][sim'.state.exitType # sim.state.exitType =>
          /\ sim'.state.exitType \in {"safe", "pause"} => sim.state.isCheckpointWindow
          /\ sim'.state.exitType = "loss" => ~sim.state.isCheckpointWindow]_vars

\* C10: exitSafe() and pause() called while isCheckpointWindow is false throw
\* and leave the state and the event log as they were
C10_MisuseThrows ==
    [][(lastCall'.op \in {"exitSafe", "pause"} /\ ~sim.state.isCheckpointWindow)
          => (lastCall'.error # "none" /\ sim' = sim)]_vars

\* a call of exitSafe() or pause() has thrown in a run that is under way
C10_Witness ==
    /\ lastCall.op \in {"exitSafe", "pause"}
    /\ lastCall.error # "none"
    /\ ~sim.state.isCheckpointWindow
    /\ ~sim.state.isRunOver
    /\ sim.state.tick >= CallStride
    /\ Len(sim.events) > 0

\* C11: forfeit() called in a state that is not terminal, in or out of a
\* checkpoint window, does not throw and leaves isRunOver true, exit type
\* forfeit, bankroll 0 and the log longer by exactly one forfeit event that
\* carries the current tick
C11_ForfeitZeroes ==
    [][(lastCall'.op = "forfeit" /\ ~sim.state.isRunOver)
          => /\ lastCall'.error = "none"
             /\ sim'.state.isRunOver
             /\ sim'.state.exitType = "forfeit"
             /\ sim'.state.bankroll = 0
             /\ Len(NewEvents) = 1
             /\ NewEvents[1].type = "forfeit"
             /\ NewEvents[1].tick = sim.state.tick
             /\ sim'.state.tick = sim.state.tick]_vars

\* a run forfeited inside a checkpoint window, with the stake still on the
\* ledger when forfeit() was called
C11_Witness ==
    /\ lastCall.op = "forfeit"
    /\ sim.state.isCheckpointWindow
    /\ sim.state.exitType = "forfeit"
    /\ sim.state.bankroll = 0
    /\ ExitCalls(sim) = 1
    /\ \A i \in 1..Len(sim.events) : sim.events[i].type # "loss"
    /\ sim.events[Len(sim.events)].tick = sim.state.tick

\* C12: on an engine whose run is over, tick() changes no field of the
\* state, records no event and makes no draw, processInput() changes
\* nothing, and neither throws
C12_TerminalNoOp ==
    [][(sim.state.isRunOver /\ lastCall'.op \in {"tick", "processInput"})
          => (sim' = sim /\ lastCall'.error = "none")]_vars

\* tick() was called on a run that a safe exit had ended
C12_Witness ==
    /\ sim.state.isRunOver
    /\ sim.state.exitType = "safe"
    /\ lastCall.op = "tick"
    /\ sim.state.isCheckpointWindow
    /\ Len(sim.state.obstacles) + Len(sim.state.rewards) > 0

\* the obstacle_hit and reward_collected events among those a step appended
NewLedgerEvents ==
    LET IsLedger(ev) == ev.type \in {"obstacle_hit", "reward_collected"}
    IN SelectSeq(NewEvents, IsLedger)

\* the ledger a new ledger event found: that of the state before the step,
\* or the one the ledger event before it left
LedgerBefore(k) ==
    IF k = 1 THEN sim.state.bankroll
    ELSE StringToBigInt(NewLedgerEvents[k - 1].data.newBankroll)

\* new = floor(old * m / 10000), stated on old = 10000 q + r
IsFloorScaled(old, new, m) ==
    LET q == old \div 10000
        r == old % 10000
        d == new - q * m
    IN /\ 0 <= d
       /\ d <= m
       /\ d * 10000 <= r * m
       /\ r * m < (d + 1) * 10000

\* C15: an obstacle of magnitude pctBp that hits a bankroll b leaves
\* floor(b * (10000 - pctBp) / 10000), and its obstacle_hit event carries b
\* as oldBankroll and that result as newBankroll, both as decimal strings
C15_ObstacleLedger ==
    [][\A k \in 1..Len(NewLedgerEvents) :
          LET ev == NewLedgerEvents[k]
              b == LedgerBefore(k)
              new == StringToBigInt(ev.data.newBankroll)
          IN ev.type = "obstacle_hit" =>
                /\ ev.data.oldBankroll = BigIntToString(b)
                /\ ev.data.newBankroll = BigIntToString(new)
                /\ IsFloorScaled(b, new, 10000 - ev.data.pctBp)
                /\ k = Len(NewLedgerEvents) /\ new > 0 => sim'.state.bankroll = new]_vars

\* an obstacle has hit a ledger of more than 100000 where the exact product
\* has a fraction of a half or more: the division has rounded down
C15_Witness ==
    /\ \E i \in 1..Len(sim.events) :
          /\ sim.events[i].type = "obstacle_hit"
          /\ StringToBigInt(sim.events[i].data.oldBankroll) > 100000
          /\ ((StringToBigInt(sim.events[i].data.oldBankroll) % 10000)
                 * (10000 - sim.events[i].data.pctBp)) % 10000 >= 5000
    /\ ~sim.state.isRunOver

\* C16: a reward of magnitude pctBp collected at bankroll b leaves
\* floor(b * (10000 + pctBp) / 10000), which is not below b, and a
\* reward_collected event with the old and the new value is recorded
C16_RewardLedger ==
    [][/\ \A k \in 1..Len(NewLedgerEvents) :
             LET ev == NewLedgerEvents[k]
                 b == LedgerBefore(k)
                 new == StringToBigInt(ev.data.newBankroll)
             IN ev.type = "reward_collected" =>
                   /\ ev.data.oldBankroll = BigIntToString(b)
                   /\ ev.data.newBankroll = BigIntToString(new)
                   /\ IsFloorScaled(b, new, 10000 + ev.data.pctBp)
                   /\ new >= b
                   /\ k = Len(NewLedgerEvents) => sim'.state.bankroll = new
       /\ (lastCall'.op = "tick" /\ sim'.state.bankroll > sim.state.bankroll)
             => \E k \in 1..Len(NewLedgerEvents) : NewLedgerEvents[k].type = "reward_collected"]_vars

\* a reward collected on a small ledger has left it as it was (the product
\* rounded down), and a reward has raised a ledger
C16_Witness ==
    /\ \E i \in 1..Len(sim.events) :
          /\ sim.events[i].type = "reward_collected"
          /\ sim.events[i].data.newBankroll = sim.events[i].data.oldBankroll
          /\ StringToBigInt(sim.events[i].data.oldBankroll) > 0
    /\ \E i \in 1..Len(sim.events) :
          /\ sim.events[i].type = "reward_collected"
          /\ StringToBigInt(sim.events[i].data.newBankroll)
                > StringToBigInt(sim.events[i].data.oldBankroll)

\* C17: over a run no obstacle id is in two obstacle_hit events and no reward
\* id in two reward_collected events
C17_ConsumedOnce ==
    \A i, j \in 1..Len(sim.events) :
        i < j =>
            /\ (sim.events[i].type = "obstacle_hit" /\ sim.events[j].type = "obstacle_hit")
                  => sim.events[i].data.obstacleId # sim.events[j].data.obstacleId
            /\ (sim.events[i].type = "reward_collected" /\ sim.events[j].type = "reward_collected")
                  => sim.events[i].data.rewardId # sim.events[j].data.rewardId

\* an obstacle hit at an earlier tick and a reward collected at an earlier
\* tick still overlap the player, in a run that is under way
C17_Witness ==
    /\ ~sim.state.isRunOver
    /\ \E i \in 1..Len(sim.state.obstacles), k \in 1..Len(sim.events) :
          /\ sim.state.obstacles[i].hit
          /\ BoxesIntersect(PlayerBox(sim.state), EntityBox(sim.state.obstacles[i]))
          /\ sim.events[k].type = "obstacle_hit"
          /\ sim.events[k].data.obstacleId = sim.state.obstacles[i].id
          /\ sim.events[k].tick < sim.state.tick
    /\ \E i \in 1..Len(sim.events), j \in 1..Len(sim.events) :
          /\ sim.events[i].type = "reward_collected"
          /\ sim.events[j].type = "obstacle_hit"

\* C20: tick() on an engine whose run is not over raises the tick counter by
\* exactly 1, and in every state elapsedTime is tick / TICK_RATE
C20_ClockFollowsTick ==
    /\ [](sim.state.elapsedTime * TICK_RATE = sim.state.tick * Seconds(1))
    /\ [][(lastCall'.op = "tick" /\ ~sim.state.isRunOver)
            => sim'.state.tick = sim.state.tick + 1]_vars

\* 61 seconds into a run that is under way
C20_Witness ==
    /\ lastCall.op = "tick"
    /\ ~sim.state.isRunOver
    /\ sim.state.tick = 61 * TICK_RATE
    /\ sim.state.elapsedTime = Seconds(61)
    /\ Len(sim.events) > 1

\* the run has had no obstacle hit and no reward collection
NoLedgerEvents(e) ==
    \A i \in 1..Len(e.events) : e.events[i].type \notin {"obstacle_hit", "reward_collected"}

\* the checkpoint events of the log, in the order they were recorded
CheckpointEvents(e) ==
    LET IsCheckpoint(ev) == ev.type = "checkpoint" IN SelectSeq(e.events, IsCheckpoint)

\* C13: in a run without obstacle hits and reward collections the checkpoint
\* index is floor(tick / (CHECKPOINT_INTERVAL * TICK_RATE)) after every
\* advance, each increase of the index has recorded exactly one checkpoint
\* event and opened one window, and the window is open for
\* CHECKPOINT_WINDOW * TICK_RATE ticks and then closed
C13_CheckpointCadence ==
    NoLedgerEvents(sim) =>
        /\ sim.state.checkpointIndex = sim.state.tick \div (CHECKPOINT_INTERVAL * TICK_RATE)
        /\ Len(CheckpointEvents(sim)) = sim.state.checkpointIndex
        /\ \A k \in 1..Len(CheckpointEvents(sim)) :
              /\ CheckpointEvents(sim)[k].tick = k * CHECKPOINT_INTERVAL * TICK_RATE
              /\ CheckpointEvents(sim)[k].data.index = k
        /\ sim.state.isCheckpointWindow <=>
              /\ sim.state.tick >= CHECKPOINT_INTERVAL * TICK_RATE
              /\ sim.state.tick % (CHECKPOINT_INTERVAL * TICK_RATE) < CHECKPOINT_WINDOW * TICK_RATE

\* a run without a hit or a collection has been through its first checkpoint
\* window and is running again
C13_Witness ==
    /\ NoLedgerEvents(sim)
    /\ ~sim.state.isRunOver
    /\ sim.state.tick = (CHECKPOINT_INTERVAL + CHECKPOINT_WINDOW) * TICK_RATE
    /\ sim.state.checkpointIndex = 1
    /\ ~sim.state.isCheckpointWindow
    /\ Len(CheckpointEvents(sim)) = 1

\* ------------------------------------------------------------------------
\* A run in which nothing spawns: at difficulty -100 both spawn rates of
\* getSpawnRates() are at most 0, and no draw is below them
\* ------------------------------------------------------------------------
QuietParams == {[difficulty |-> 0 - 100, percentMin |-> 5, percentMax |-> 25, curveMode |-> "static"]}

InitQuiet ==
    /\ \E seed \in Seeds, params \in QuietParams, b \in Bankrolls, n \in RunCounts :
          sim = NewSimulation(seed, params, b, n, 0)
    /\ lastCall = [op |-> "new", error |-> "none"]
    /\ restored = <<>>
    /\ NoWebSession
    /\ NoLibraryCalls
    /\ NoBackend
    /\ NoHandlers

SpecQuiet == InitQuiet /\ [][Next]_vars

\* C14: in a run in which no entity spawns, every advance leaves the bankroll
\* as it was, and after 3600 advances the tick is 3600, the checkpoint index
\* 1, the checkpoint window open and the run not over
C14_QuietRun ==
    /\ []((sim.nextEntityId = 0 /\ ExitCalls(sim) = 0 /\ sim.state.tick = 3600)
            => /\ sim.state.checkpointIndex = 1
               /\ sim.state.isCheckpointWindow
               /\ ~sim.state.isRunOver)
    /\ [][(lastCall'.op = "tick" /\ sim'.nextEntityId = 0)
            => /\ sim'.state.bankroll = sim.state.bankroll
               /\ (~sim.state.isRunOver => sim'.state.tick = sim.state.tick + 1)]_vars

\* 3600 advances of a stake of 10000000, thousands of draws and no spawn
C14_Witness ==
    /\ sim.nextEntityId = 0
    /\ sim.state.tick = 3600
    /\ sim.state.bankroll = 10000000
    /\ sim.state.checkpointIndex = 1
    /\ sim.state.isCheckpointWindow
    /\ ~sim.state.isRunOver
    /\ GetIndex(sim.rng) > 3600

\* the obstacles and the rewards created by the step
SpawnedObstacles ==
    {i \in 1..Len(sim'.state.obstacles) : sim'.state.obstacles[i].id.n >= sim.nextEntityId}

SpawnedRewards ==
    {i \in 1..Len(sim'.state.rewards) : sim'.state.rewards[i].id.n >= sim.nextEntityId}

\* C29: a tick that begins with the checkpoint-window flag set creates no
\* obstacle and no reward, takes no value from the generator, and leaves the
\* recorded rngIndex as it was
C29_NoSpawnInWindow ==
    [][(lastCall'.op = "tick" /\ sim.state.isCheckpointWindow) =>
          /\ SpawnedObstacles = {}
          /\ SpawnedRewards = {}
          /\ sim'.nextEntityId = sim.nextEntityId
          /\ GetIndex(sim'.rng) = GetIndex(sim.rng)
          /\ sim'.state.rngIndex = sim.state.rngIndex]_vars

\* a tick was taken a hundred ticks into the first checkpoint window by a
\* run that drew before the window and goes on
C29_Witness ==
    /\ lastCall.op = "tick"
    /\ sim.state.tick = CHECKPOINT_INTERVAL * TICK_RATE + 100
    /\ sim.state.isCheckpointWindow
    /\ ~sim.state.isRunOver
    /\ sim.state.rngIndex > 0

\* C30: a tick that begins with a reward at x > 850 creates no obstacle, a
\* tick that begins with an obstacle at x > 850 creates no reward, and no
\* tick creates both an obstacle and a reward
C30_SpawnLaneExclusive ==
    [][lastCall'.op = "tick" =>
          /\ (\E i \in 1..Len(sim.state.rewards) : sim.state.rewards[i].x > Px(850))
                => SpawnedObstacles = {}
          /\ (\E i \in 1..Len(sim.state.obstacles) : sim.state.obstacles[i].x > Px(850))
                => SpawnedRewards = {}
          /\ SpawnedObstacles = {} \/ SpawnedRewards = {}]_vars

\* before the first checkpoint, a tick was taken with a reward at x > 850
\* that an earlier tick had created, the obstacle spawn gap having passed
C30_Witness ==
    /\ lastCall.op = "tick"
    /\ sim.state.checkpointIndex = 0
    /\ ~sim.state.isCheckpointWindow
    /\ ~sim.state.isRunOver
    /\ sim.state.elapsedTime - sim.lastObstacleSpawnTime >= MIN_SPAWN_GAP
    /\ \E i \in 1..Len(sim.state.rewards) :
          /\ sim.state.rewards[i].x > Px(850)
          /\ sim.state.rewards[i].x <= Px(900) - 2 * sim.state.scrollSpeed

\* ------------------------------------------------------------------------
\* The player: the first ticks of a run, with inputs every few ticks
\* ------------------------------------------------------------------------
\* the last tick of these runs
MaxInputTick == 150

\* inputs arrive every so many ticks
InputStride == 10

PlayerTick ==
    /\ sim.state.tick < MaxInputTick
    /\ DoTick

PlayerInput ==
    /\ sim.state.tick % InputStride = 0
    /\ \E type \in InputTypes :
          /\ sim' = ProcessInput(sim, [type |-> type, tick |-> sim.state.tick])
          /\ lastCall' = [op |-> "processInput", error |-> "none", type |-> type]
    /\ UNCHANGED <<restored, routeVars, restVars>>

NextPlayer == PlayerTick \/ PlayerInput

SpecPlayer == Init /\ [][NextPlayer]_vars

\* C32: isJumping and isSliding are never both true; a jump input changes
\* the state only of a player neither jumping nor sliding, and a slide input
\* only of a player neither sliding nor jumping whose slideCooldown is <= 0
C32_JumpSlideExclusive ==
    /\ [](~(sim.state.isJumping /\ sim.state.isSliding))
    /\ [][(lastCall'.op = "processInput" /\ sim' # sim) =>
             /\ ~sim.state.isJumping
             /\ ~sim.state.isSliding
             /\ lastCall'.type = "slide" => sim.state.slideCooldown <= 0
             /\ lastCall'.type = "jump" => (sim'.state.isJumping /\ ~sim'.state.isSliding)
             /\ lastCall'.type = "slide" => (sim'.state.isSliding /\ ~sim'.state.isJumping)]_vars

\* a slide input was given to a player on the ground, no longer sliding,
\* whose cooldown had not run out, and was ignored
C32_Witness ==
    /\ lastCall.op = "processInput"
    /\ lastCall.type = "slide"
    /\ ~sim.state.isRunOver
    /\ ~sim.state.isSliding
    /\ ~sim.state.isJumping
    /\ sim.state.slideCooldown > 0

\* ------------------------------------------------------------------------
\* Snapshot and restore: the run goes on in sim and in the instance restored
\* from sim's snapshot, both given the same calls
\* ------------------------------------------------------------------------
SnapSeeds == {CombineSeeds(<<49, 57>>, <<>>, id) : id \in RunIds}

InitSnap ==
    /\ \E seed \in SnapSeeds, params \in ParamSets, b \in Bankrolls :
          sim = NewSimulation(seed, params, b, 1, 0)
    /\ lastCall = [op |-> "new", error |-> "none"]
    /\ restored = <<>>
    /\ NoWebSession
    /\ NoLibraryCalls
    /\ NoBackend
    /\ NoHandlers

\* GameSimulation.fromSnapshot(sim.getSnapshot(), seed, params, runCount)
DoRestore ==
    /\ restored = <<>>
    /\ sim.state.tick % SnapStride = 0
    /\ restored' = <<[engine |-> FromSnapshot(GetSnapshot(sim), sim.rng.seed,
                                              sim.params, sim.runCount),
                      base |-> Len(sim.events),
                      ids |-> sim.nextEntityId]>>
    /\ lastCall' = [op |-> "fromSnapshot", error |-> "none"]
    /\ UNCHANGED <<sim, routeVars, restVars>>

NextSnap == DoTick \/ DoProcessInput \/ DoRestore

SpecSnap == InitSnap /\ [][NextSnap]_vars

\* C6: the instance restored from a snapshot has, after any number of tick
\* and processInput steps, the state of the instance the snapshot was taken
\* of, and has recorded the events that instance recorded since
C6_RestoreEquivalent ==
    restored # <<>> =>
        /\ restored[1].engine.state = sim.state
        /\ restored[1].engine.events =
               SubSeq(sim.events, restored[1].base + 1, Len(sim.events))

\* a snapshot taken in mid-run, entities on screen, and both instances have
\* since spawned, hit and collected
C6_Witness ==
    /\ restored # <<>>
    /\ restored[1].base >= 1
    /\ Len(restored[1].engine.events) >= 2
    /\ \E i \in 1..Len(restored[1].engine.events) :
          restored[1].engine.events[i].type = "obstacle_hit"
    /\ \E i \in 1..Len(restored[1].engine.events) :
          restored[1].engine.events[i].type = "reward_collected"

\* C18: after construction, after every tick and after fromSnapshot the
\* rngIndex of the state is the draw counter of the instance's generator
C18_RngIndexInStep ==
    /\ sim.state.rngIndex = GetIndex(sim.rng)
    /\ restored # <<>> =>
          restored[1].engine.state.rngIndex = GetIndex(restored[1].engine.rng)

\* an instance restored in mid-run, after draws, has drawn again since
C18_Witness ==
    /\ restored # <<>>
    /\ restored[1].ids > 0
    /\ restored[1].engine.nextEntityId > restored[1].ids
    /\ GetIndex(restored[1].engine.rng) > 2 * SnapStride
    /\ lastCall.op = "tick"

\* the counter values of the ids of the entities on screen
IdsOnScreen(e) ==
    {e.state.obstacles[i].id.n : i \in 1..Len(e.state.obstacles)}
        \cup {e.state.rewards[i].id.n : i \in 1..Len(e.state.rewards)}

\* no two entities on screen share a counter value, and the counter is past
\* all of them
IdsDistinct(e) ==
    /\ Cardinality(IdsOnScreen(e)) = Len(e.state.obstacles) + Len(e.state.rewards)
    /\ \A n \in IdsOnScreen(e) : n < e.nextEntityId

\* the entities of after that before does not have were given counter values
\* from before's counter on, and the counter did not go back
IdsFresh(before, after) ==
    /\ after.nextEntityId >= before.nextEntityId
    /\ \A n \in IdsOnScreen(after) \ IdsOnScreen(before) : n >= before.nextEntityId

\* C19: every entity spawned, also after a snapshot and restore, is given an
\* id whose counter value is above that of every entity spawned before it
C19_IdsNeverReused ==
    /\ [](IdsDistinct(sim) /\ (restored # <<>> => IdsDistinct(restored[1].engine)))
    /\ [][/\ IdsFresh(sim, sim')
          /\ restored' # <<>> =>
                IdsFresh(IF restored = <<>> THEN sim ELSE restored[1].engine,
                         restored'[1].engine)]_vars

\* the restored instance has spawned an entity that is still on screen, next
\* to one spawned before the snapshot
C19_Witness ==
    /\ restored # <<>>
    /\ restored[1].ids > 0
    /\ \E n \in IdsOnScreen(restored[1].engine) : n >= restored[1].ids
    /\ \E n \in IdsOnScreen(restored[1].engine) : n < restored[1].ids

\* the counter values of the obstacles and of the rewards that after has and
\* that were given from before's counter on
NewObstacleIds(before, after) ==
    {after.state.obstacles[i].id.n : i \in 1..Len(after.state.obstacles)}
        \ 0..(before.nextEntityId - 1)

NewRewardIds(before, after) ==
    {after.state.rewards[i].id.n : i \in 1..Len(after.state.rewards)}
        \ 0..(before.nextEntityId - 1)

\* a step from before to after that spawns an entity of a type does so at
\* tick 48 or later, 48 ticks or more after the time kept as that type's
\* last spawn, and keeps its own time as the last spawn; a step that spawns
\* none of the type leaves the time kept
SpawnGapKept(before, after) ==
    /\ IF NewObstacleIds(before, after) # {}
       THEN /\ after.state.tick >= 48
            /\ after.state.tick - before.lastObstacleSpawnTime >= 48
            /\ after.lastObstacleSpawnTime = after.state.tick
       ELSE after.lastObstacleSpawnTime = before.lastObstacleSpawnTime
    /\ IF NewRewardIds(before, after) # {}
       THEN /\ after.state.tick >= 48
            /\ after.state.tick - before.lastRewardSpawnTime >= 48
            /\ after.lastRewardSpawnTime = after.state.tick
       ELSE after.lastRewardSpawnTime = before.lastRewardSpawnTime

\* C31: two consecutive spawns of one entity type are 48 ticks apart or
\* more, and the first spawn of a type is at tick 48 or later, in the
\* instance a run started in and in the instance restored from its snapshot
C31_SpawnGap ==
    [][/\ SpawnGapKept(sim, sim')
       /\ restored' # <<>> =>
             SpawnGapKept(IF restored = <<>> THEN sim ELSE restored[1].engine,
                          restored'[1].engine)]_vars

\* the restored instance has spawned an obstacle and a reward since the
\* snapshot, which was taken after a spawn of each type
C31_Witness ==
    /\ restored # <<>>
    /\ restored[1].ids >= 2
    /\ \E i \in 1..Len(restored[1].engine.state.obstacles) :
          restored[1].engine.state.obstacles[i].id.n >= restored[1].ids
    /\ \E i \in 1..Len(restored[1].engine.state.rewards) :
          restored[1].engine.state.rewards[i].id.n >= restored[1].ids

\* ------------------------------------------------------------------------
\* Pause and resume, as the backend does them: pause() and getSnapshot() in
\* the pause request, fromSnapshot() of the stored snapshot when the socket
\* of the resumed run connects, and tick() in the loop of the new session
\* ------------------------------------------------------------------------
DoPauseAndResume ==
    /\ restored = <<>>
    /\ AtCallTick(sim)
    /\ Pause(sim).error = "none"
    /\ sim' = Pause(sim).sim
    /\ restored' = <<[engine |-> FromSnapshot(GetSnapshot(Pause(sim).sim), sim.rng.seed,
                                              sim.params, sim.runCount),
                      base |-> Len(Pause(sim).sim.events),
                      ids |-> sim.nextEntityId]>>
    /\ lastCall' = [op |-> "fromSnapshot", error |-> "none"]
    /\ UNCHANGED <<routeVars, restVars>>

NextPause == DoTick \/ DoPauseAndResume

SpecPause == Init /\ [][NextPause]_vars

\* C36: the engine built by fromSnapshot from the snapshot of a paused run
\* is not terminal, and each tick() on it increases its tick counter
C36_ResumeProgresses ==
    /\ []((restored # <<>> /\ lastCall.op = "fromSnapshot") =>
             ~restored[1].engine.state.isRunOver)
    /\ [][(restored # <<>> /\ lastCall'.op = "tick") =>
             restored'[1].engine.state.tick = restored[1].engine.state.tick + 1]_vars

\* ------------------------------------------------------------------------
\* Snapshots that lost properties on their way back to fromSnapshot()
\* ------------------------------------------------------------------------
Without(object, names) == [name \in DOMAIN object \ names |-> object[name]]

\* the properties a stored snapshot may have lost: none, the state object,
\* or one property of the state object or of the snapshot
Losses ==
    { {}, {"state"}, {"bankroll"}, {"tick"}, {"obstacles"}, {"rngIndex"},
      {"isRunOver"}, {"nextEntityId"} }

LossySnapshot(data, lost) ==
    IF "state" \in lost
    THEN Without(data, lost)
    ELSE [Without(data, lost) EXCEPT !.state = Without(@, lost)]

\* GameSimulation.fromSnapshot(snapshot, seed, params, runCount), the snapshot
\* being one of sim with some properties lost
DoRestoreLossy ==
    /\ sim.state.tick % SnapStride = 0
    /\ \E lost \in Losses :
          LET result == FromSnapshotOfJson(LossySnapshot(GetSnapshot(sim), lost),
                                           sim.rng.seed, sim.params, sim.runCount)
          IN lastCall' = [op |-> "fromSnapshot", error |-> result.error,
                          lost |-> lost, returned |-> result.sim]
    /\ UNCHANGED <<sim, restored, routeVars, restVars>>

NextLossy == DoTick \/ DoProcessInput \/ DoRestoreLossy

SpecLossy == InitSnap /\ [][NextLossy]_vars

\* C27: fromSnapshot given a snapshot that lacks a property of the expected
\* structure fails with an error and returns no engine
C27_MalformedFails ==
    (lastCall.op = "fromSnapshot" /\ lastCall.lost # {}) =>
        /\ lastCall.error # "none"
        /\ lastCall.returned = <<>>

\* ------------------------------------------------------------------------
\* SeededRNG on its own: an instance on which next() is called, and a second
\* instance of the same seed taken to the first one's index by advanceTo();
\* from then on both are given the same calls
\* ------------------------------------------------------------------------
\* calls of next() made on an instance
MaxDraws == 8

\* "", "19::r1" and "5d::r1"
GenSeeds == {<<>>} \cup Seeds

InitRng ==
    /\ \E seed \in GenSeeds :
          gen = [ seed |-> seed,
                  stepped |-> [rng |-> SeededRngNew(seed), out |-> <<>>],
                  sought |-> <<>> ]
    /\ sim = <<>>
    /\ lastCall = [op |-> "new", error |-> "none"]
    /\ restored = <<>>
    /\ NoWebSession
    /\ NoBackend
    /\ NoHandlers

\* the call made on the second instance too, when there is one
OnSought(Op(_), g) == IF g = <<>> THEN g ELSE Op(g)

\* rng.next() on both instances
GenNext ==
    /\ gen.stepped.rng.index < MaxDraws
    /\ LET Draw(g) == [rng |-> SeededRngNext(g.rng).rng, out |-> <<SeededRngNext(g.rng).value>>]
       IN gen' = [gen EXCEPT !.stepped = Draw(@), !.sought = OnSought(Draw, @)]
    /\ lastCall' = [op |-> "next", error |-> "none"]
    /\ UNCHANGED <<sim, restored, routeVars, backend, handlers>>

\* a fresh instance of the seed, and advanceTo(n) on it for the index n of
\* the first instance
GenSeek ==
    /\ gen.sought = <<>>
    /\ LET r == SeededRngAdvanceTo(SeededRngNew(gen.seed), gen.stepped.rng.index)
       IN /\ gen' = [gen EXCEPT !.sought = [rng |-> r.rng, out |-> <<>>]]
          /\ lastCall' = [op |-> "seek", error |-> r.error]
    /\ UNCHANGED <<sim, restored, routeVars, backend, handlers>>

\* rng.advanceTo(targetIndex) on both instances, for a target behind, at or
\* ahead of their index
GenAdvanceTo ==
    /\ gen.sought # <<>>
    /\ \E targetIndex \in 0..MaxDraws :
          LET Seek(g) == [g EXCEPT !.rng = SeededRngAdvanceTo(g.rng, targetIndex).rng]
          IN /\ gen' = [gen EXCEPT !.stepped = Seek(@), !.sought = Seek(@)]
             /\ lastCall' = [op |-> "advanceTo", target |-> targetIndex,
                              error |-> SeededRngAdvanceTo(gen.stepped.rng, targetIndex).error]
    /\ UNCHANGED <<sim, restored, routeVars, backend, handlers>>

NextRng == GenNext \/ GenSeek \/ GenAdvanceTo

SpecRng == InitRng /\ [][NextRng]_vars

\* C22: a fresh instance taken to index n by advanceTo(n) has the state and
\* the index of a fresh instance of the same seed on which next() was called
\* n times, and the two return the same draws from then on
C22_SeekIsReplay ==
    gen.sought # <<>> =>
        /\ gen.sought.rng = gen.stepped.rng
        /\ gen.sought.out # <<>> => gen.sought.out = gen.stepped.out

\* an instance sought to index 3 or beyond has drawn since, as has the
\* instance that was stepped there
C22_Witness ==
    /\ gen.sought # <<>>
    /\ gen.sought.out # <<>>
    /\ gen.sought.rng.index >= 5
    /\ lastCall.op = "next"
    /\ gen.stepped.out # <<{}>>

\* C23: advanceTo(targetIndex) with a target below the index of the
\* generator throws
C23_SeekBackFails ==
    [][(lastCall'.op = "advanceTo" /\ lastCall'.target < gen.stepped.rng.index)
          => lastCall'.error # "none"]_vars

\* C24: after any number of next() calls the state words s0 and s1 are below
\* 2^64
C24_StateIs128Bits ==
    \A i \in gen.stepped.rng.s0 \cup gen.stepped.rng.s1 : i < 64

\* ------------------------------------------------------------------------
\* combineSeeds() on its own: two calls, on any two triples of strings
\* ------------------------------------------------------------------------
\* "", "a", ":", "a:" and ":a"
SeedStrings == {<<>>, <<97>>, <<COLON>>, <<97, COLON>>, <<COLON, 97>>}

InitSeeds ==
    /\ gen = <<>>
    /\ sim = <<>>
    /\ lastCall = [op |-> "new", error |-> "none"]
    /\ restored = <<>>
    /\ NoWebSession
    /\ NoBackend
    /\ NoHandlers

DoCombineSeeds ==
    /\ Len(gen) < 2
    /\ \E serverSeed \in SeedStrings, clientSeed \in SeedStrings, runId \in SeedStrings :
          gen' = Append(gen, [ serverSeed |-> serverSeed, clientSeed |-> clientSeed,
                               runId |-> runId,
                               seed |-> CombineSeeds(serverSeed, clientSeed, runId) ])
    /\ lastCall' = [op |-> "combineSeeds", error |-> "none"]
    /\ UNCHANGED <<sim, restored, routeVars, backend, handlers>>

NextSeeds == DoCombineSeeds

SpecSeeds == InitSeeds /\ [][NextSeeds]_vars

SameTriple(a, b) ==
    /\ a.serverSeed = b.serverSeed
    /\ a.clientSeed = b.clientSeed
    /\ a.runId = b.runId

HasColon(str) == \E i \in 1..Len(str) : str[i] = COLON

\* C25 as stated: any two distinct triples (serverSeed, clientSeed, runId)
\* give distinct combined seeds, and equal triples the same seed
C25_Injective ==
    Len(gen) = 2 => (SameTriple(gen[1], gen[2]) <=> gen[1].seed = gen[2].seed)

\* C25: two distinct triples whose server seeds and run ids hold no ":" (a
\* server seed is a string of hexadecimal digits, a run id a database id; the
\* client seed is any string) give distinct combined seeds, and equal triples
\* the same seed
C25_InjectiveOnGeneratedIds ==
    (/\ Len(gen) = 2
     /\ \A k \in 1..2 : ~HasColon(gen[k].serverSeed) /\ ~HasColon(gen[k].runId))
        => (SameTriple(gen[1], gen[2]) <=> gen[1].seed = gen[2].seed)

\* two triples with the server seed and the run id free of ":" and client
\* seeds that hold one, of combined seeds of the same length
C25_Witness ==
    /\ Len(gen) = 2
    /\ \A k \in 1..2 : ~HasColon(gen[k].serverSeed) /\ ~HasColon(gen[k].runId)
    /\ HasColon(gen[1].clientSeed)
    /\ HasColon(gen[2].clientSeed)
    /\ ~SameTriple(gen[1], gen[2])
    /\ Len(gen[1].seed) = Len(gen[2].seed)
    /\ gen[1].seed # gen[2].seed

\* ------------------------------------------------------------------------
\* The web application: the run start route, the game page (GameCanvas) and
\* the run completion route.  One user is signed in.
\* ------------------------------------------------------------------------
\* the player presses a key, or a checkpoint button, at multiples of this tick
PageCallStride == 3600
\* completion requests sent by a client other than GameCanvas
MaxTamperedPosts == 1

NULL == "null"

\* hashSeed(): hash = ((hash << 5) - hash + byte) & (2^64 - 1) over the bytes
\* of the seed; the seeds here are short enough for the hash to stay below
\* 2^64, where the mask leaves it as it is
RECURSIVE HashFold(_, _)
HashFold(seed, i) ==
    IF i = 0 THEN 0 ELSE HashFold(seed, i - 1) * 31 + seed[i]

\* toString(16).padStart(width, '0'), as a sequence of hexadecimal digits
RECURSIVE HexDigits(_, _)
HexDigits(n, width) ==
    IF width = 0 /\ n = 0 THEN <<>>
    ELSE Append(HexDigits(n \div 16, IF width > 0 THEN width - 1 ELSE 0), n % 16)

HashSeed(seed) == HexDigits(HashFold(seed, Len(seed)), 16)

\* the start requests: the stake and the client seed, sent by the game page
\* or by another client of the same user
StartRequests ==
    { [client |-> "page", lockedBankroll |-> BigIntToString(20), clientSeed |-> <<>>],
      [client |-> "page", lockedBankroll |-> BigIntToString(20), clientSeed |-> <<99>>],
      [client |-> "page", lockedBankroll |-> BigIntToString(20000000), clientSeed |-> <<>>],
      [client |-> "other", lockedBankroll |-> BigIntToString(10000000), clientSeed |-> <<>>],
      [client |-> "other", lockedBankroll |-> BigIntToString(20), clientSeed |-> <<>>] }

RouteServerSeeds == {<<49, 57>>}

InitRoute ==
    /\ sim = <<>>
    /\ lastCall = [op |-> "none", error |-> "none"]
    /\ restored = <<>>
    /\ db = [user |-> [balance |-> 10000100, runCount |-> 0], runs |-> <<>>]
    /\ page = [runData |-> <<>>, sim |-> <<>>, inputs |-> <<>>, completed |-> FALSE]
    /\ request = <<>>
    /\ route = [pc |-> "idle", body |-> <<>>, sim |-> <<>>, inputs |-> <<>>,
                currentInputIdx |-> 0]
    /\ responses = <<>>
    /\ NoLibraryCalls
    /\ NoBackend
    /\ NoHandlers

\* the body of the start route's 200 response
StartResponse(run) ==
    [ runId |-> run.id,
      serverSeed |-> run.serverSeed,
      serverCommit |-> run.seedCommit,
      runNonce |-> run.runNonce,
      lockedBankroll |-> BigIntToString(run.lockedBankroll),
      params |-> [ difficulty |-> run.difficulty, percentMin |-> run.percentMin,
                   percentMax |-> run.percentMax, curveMode |-> run.curveMode ] ]

\* POST of the run start route: the balance is checked and debited, the seeds
\* are made, the run row is created and the run counter goes up, in one
\* transaction
PostStart ==
    /\ db.runs = <<>>
    /\ responses = <<>>
    /\ \E body \in StartRequests, params \in ParamSets,
          serverSeed \in RouteServerSeeds, id \in RunIds :
          LET amount == IF body.lockedBankroll = <<>> THEN 0
                        ELSE StringToBigInt(body.lockedBankroll)
              run == [ id |-> id,
                       difficulty |-> params.difficulty,
                       percentMin |-> params.percentMin,
                       percentMax |-> params.percentMax,
                       curveMode |-> params.curveMode,
                       serverSeed |-> serverSeed,
                       seedCommit |-> HashSeed(serverSeed),
                       clientSeed |-> body.clientSeed,
                       startWalletBalance |-> db.user.balance,
                       lockedBankroll |-> amount,
                       currentBankroll |-> amount,
                       runNonce |-> db.user.runCount + 1,
                       exitType |-> NULL,
                       endBankroll |-> NULL,
                       eventsDigest |-> NULL ]
          IN IF db.user.balance < amount
             THEN /\ responses' = Append(responses,
                        [route |-> "start", to |-> body.client, status |-> 400,
                         body |-> [error |-> "Insufficient funds"]])
                  /\ UNCHANGED db
             ELSE /\ db' = [user |-> [balance |-> db.user.balance - amount,
                                      runCount |-> db.user.runCount + 1],
                            runs |-> <<run>>]
                  /\ responses' = Append(responses,
                        [route |-> "start", to |-> body.client, status |-> 200,
                         body |-> StartResponse(run)])
    /\ UNCHANGED <<page, request, route, engineVars, restVars>>

\* the start response this client was given, if it has one
StartedRunData(client) ==
    {responses[i].body : i \in {j \in 1..Len(responses) :
                                  /\ responses[j].route = "start"
                                  /\ responses[j].to = client
                                  /\ responses[j].status = 200}}

\* runData.params.clientSeed || ''
ParamsClientSeed(params) ==
    IF "clientSeed" \in DOMAIN params THEN params.clientSeed ELSE <<>>

\* GameCanvas, the initializer effect: simRef.current = new GameSimulation(
\* seed, params, BigInt(runData.lockedBankroll || '0'), 1)
MountCanvas ==
    /\ page.sim = <<>>
    /\ \E runData \in StartedRunData("page") :
          LET seed == CombineSeeds(runData.serverSeed, ParamsClientSeed(runData.params),
                                   runData.runId)
              amount == IF runData.lockedBankroll = <<>> THEN 0
                        ELSE StringToBigInt(runData.lockedBankroll)
          IN page' = [page EXCEPT !.runData = <<runData>>,
                                  !.sim = <<NewSimulation(seed, runData.params, amount, 1, 0)>>]
    /\ UNCHANGED <<db, request, route, responses, engineVars, restVars>>

\* the key presses and button clicks of the player arrive at the page's call ticks
AtPageCallTick(e) == e.state.tick > 0 /\ e.state.tick % PageCallStride = 0

\* onUpdate, one fixed step of the accumulator loop: sim.tick()
PageTick ==
    /\ page.sim # <<>>
    /\ ~page.sim[1].state.isRunOver
    /\ page.sim[1].state.tick < MaxTick
    /\ page' = [page EXCEPT !.sim = <<Tick(page.sim[1])>>]
    /\ UNCHANGED <<db, request, route, responses, engineVars, restVars>>

\* handleInput: the input is stamped with the tick of the state, given to the
\* simulation and pushed on inputsRef.  The player presses one key per tick.
PageInput ==
    /\ page.sim # <<>>
    /\ ~page.completed
    /\ AtPageCallTick(page.sim[1])
    /\ \A i \in 1..Len(page.inputs) : page.inputs[i].tick # page.sim[1].state.tick
    /\ \E type \in InputTypes :
          LET input == [type |-> type, tick |-> page.sim[1].state.tick]
          IN page' = [page EXCEPT !.sim = <<ProcessInput(page.sim[1], input)>>,
                                  !.inputs = Append(@, input)]
    /\ UNCHANGED <<db, request, route, responses, engineVars, restVars>>

\* handleCheckpoint: 'exit' and 'pause' both call exitSafe() and swallow the
\* Error it may throw; 'continue' does nothing.  The player answers the
\* checkpoint dialog of a run that is under way.
PageCheckpoint ==
    /\ page.sim # <<>>
    /\ AtPageCallTick(page.sim[1])
    /\ ~page.sim[1].state.isRunOver
    /\ \E action \in {"exit", "pause", "continue"} :
          page' = [page EXCEPT !.sim = IF action \in {"exit", "pause"}
                                        THEN <<ExitSafe(page.sim[1]).sim>>
                                        ELSE @]
    /\ UNCHANGED <<db, request, route, responses, engineVars, restVars>>

\* state.exitType || 'loss'
ClaimedExitType(state) == IF state.exitType = NULL THEN "loss" ELSE state.exitType

\* completion requests so far, answered or on their way
CompletionPosts ==
    Len(request) + Cardinality({i \in 1..Len(responses) : responses[i].route = "complete"})

\* onUpdate when the run is over, and handleGameOver: completedRef is set and
\* the run is submitted with the input log and the final state of simRef
PageGameOver ==
    /\ page.sim # <<>>
    /\ page.sim[1].state.isRunOver
    /\ ~page.completed
    /\ route.pc # "replaying"
    /\ request = <<>>
    /\ page' = [page EXCEPT !.completed = TRUE]
    /\ request' = Append(request,
          [ runId |-> page.runData[1].runId,
            inputs |-> page.inputs,
            finalBankroll |-> BigIntToString(page.sim[1].state.bankroll),
            exitType |-> ClaimedExitType(page.sim[1].state) ])
    /\ UNCHANGED <<db, route, responses, engineVars, restVars>>

\* what a client that is not GameCanvas may claim
ForgedClaims == {[finalBankroll |-> BigIntToString(1000000), exitType |-> "safe"]}

\* the input logs such a client may send: none, or a log out of order, with
\* inputs stamped with the same tick and one stamped beyond the last tick of
\* any replay, or a log with an input stamped with a tick below 0
TamperedLogs ==
    { <<>>,
      << [type |-> "jump", tick |-> 40000], [type |-> "jump", tick |-> 7],
         [type |-> "slide", tick |-> 7], [type |-> "jump", tick |-> 7],
         [type |-> "slide", tick |-> 3] >>,
      << [type |-> "jump", tick |-> 5], [type |-> "slide", tick |-> 0 - 1] >> }

\* a completion request sent by another client of the same user: for the
\* run of the page once it is over, with the page's input log, or for a run
\* that client started itself, with a log of its making
TamperedPost ==
    /\ route.pc # "replaying"
    /\ request = <<>>
    /\ CompletionPosts - (IF page.completed THEN 1 ELSE 0) < MaxTamperedPosts
    /\ \E claim \in ForgedClaims :
          \/ /\ page.sim # <<>>
             /\ page.sim[1].state.isRunOver
             /\ request' = Append(request,
                    [ runId |-> page.runData[1].runId,
                      inputs |-> page.inputs,
                      finalBankroll |-> claim.finalBankroll,
                      exitType |-> claim.exitType ])
          \/ \E runData \in StartedRunData("other"), log \in TamperedLogs :
                request' = Append(request,
                    [ runId |-> runData.runId,
                      inputs |-> log,
                      finalBankroll |-> claim.finalBankroll,
                      exitType |-> claim.exitType ])
    /\ UNCHANGED <<db, page, route, responses, engineVars, restVars>>

\* ------------------------------------------------------------------------
\* The run completion route
\* ------------------------------------------------------------------------
\* the cap written as 10 minutes of 60 ticks
REPLAY_MAX_TICK_OF_MINUTES == 10 * 60

\* const maxTick = 10 * 60 * 60
REPLAY_MAX_TICK == 10 * 60 * 60

\* inputs.sort((a, b) => a.tick - b.tick): a stable sort by tick
RECURSIVE InsertByTick(_, _)
InsertByTick(sorted, x) ==
    IF sorted = <<>> THEN <<x>>
    ELSE IF sorted[Len(sorted)].tick <= x.tick THEN Append(sorted, x)
    ELSE Append(InsertByTick(SubSeq(sorted, 1, Len(sorted) - 1), x), sorted[Len(sorted)])

RECURSIVE SortByTick(_)
SortByTick(inputs) ==
    IF inputs = <<>> THEN <<>>
    ELSE InsertByTick(SortByTick(SubSeq(inputs, 1, Len(inputs) - 1)), inputs[Len(inputs)])

\* the row of the run with this id: prisma.run.findUnique
FindRun(d, runId) == {i \in 1..Len(d.runs) : d.runs[i].id = runId}

\* while (currentInputIdx < inputs.length && inputs[currentInputIdx].tick === state.tick)
\* (the cursor counts from 1 here)
RECURSIVE ApplyInputs(_, _, _, _)
ApplyInputs(e, inputs, idx, tick) ==
    IF idx <= Len(inputs) /\ inputs[idx].tick = tick
    THEN ApplyInputs(ProcessInput(e, inputs[idx]), inputs, idx + 1, tick)
    ELSE [sim |-> e, currentInputIdx |-> idx]

\* the condition of the replay loop
ReplayGoesOn(e) == ~e.state.isRunOver /\ e.state.tick < REPLAY_MAX_TICK

\* finalState.exitType || 'forced_end'
RecordedExitType(finalState) ==
    IF finalState.exitType = NULL THEN "forced_end" ELSE finalState.exitType

\* the settlement that records what the request claims
SettleTransactionClaimed(d, body, finalState) ==
    LET claimed == StringToBigInt(body.finalBankroll)
    IN [ user |-> [d.user EXCEPT !.balance = IF claimed > 0 THEN @ + claimed ELSE @],
         runs |-> [i \in 1..Len(d.runs) |->
                     IF d.runs[i].id = body.runId
                     THEN [d.runs[i] EXCEPT !.endBankroll = claimed,
                                            !.exitType = body.exitType,
                                            !.eventsDigest = body.exitType]
                     ELSE d.runs[i]] ]

\* the settling transaction: the run row takes the bankroll and the exit type
\* of the replayed simulation, and the bankroll is credited if it is positive
SettleTransaction(d, body, finalState) ==
    LET calculatedBankroll == finalState.bankroll
    IN [ user |-> [d.user EXCEPT !.balance = IF calculatedBankroll > 0
                                              THEN @ + calculatedBankroll ELSE @],
         runs |-> [i \in 1..Len(d.runs) |->
                     IF d.runs[i].id = body.runId
                     THEN [d.runs[i] EXCEPT !.endBankroll = calculatedBankroll,
                                            !.exitType = RecordedExitType(finalState),
                                            !.eventsDigest = finalState.exitType]
                     ELSE d.runs[i]] ]

\* POST of the completion route up to its replay loop: the run is looked up,
\* a finished run is refused, the simulation is built from the run row and
\* the inputs are sorted
RouteBegin ==
    /\ request # <<>>
    /\ route.pc # "replaying"
    /\ request' = Tail(request)
    /\ LET body == Head(request)
       IN IF FindRun(db, body.runId) = {}
          THEN /\ responses' = Append(responses,
                     [route |-> "complete", status |-> 404,
                      body |-> [error |-> "Run not found"]])
               /\ UNCHANGED route
          ELSE LET run == db.runs[CHOOSE i \in FindRun(db, body.runId) : TRUE]
                   params == [ difficulty |-> run.difficulty, percentMin |-> run.percentMin,
                               percentMax |-> run.percentMax, curveMode |-> run.curveMode ]
                   finalSeed == CombineSeeds(run.serverSeed, run.clientSeed, run.id)
               IN IF run.exitType # NULL
                  THEN /\ responses' = Append(responses,
                             [route |-> "complete", status |-> 400,
                              body |-> [error |-> "Run already completed"]])
                       /\ UNCHANGED route
                  ELSE /\ route' = [ pc |-> "replaying",
                                     body |-> body,
                                     sim |-> <<NewSimulation(finalSeed, params,
                                                             run.lockedBankroll, run.runNonce, 0)>>,
                                     inputs |-> SortByTick(body.inputs),
                                     currentInputIdx |-> 1 ]
                       /\ UNCHANGED responses
    /\ UNCHANGED <<db, page, engineVars, restVars>>

\* one turn of the replay loop: the inputs stamped with the tick of the state
\* are applied, then sim.tick()
ReplayStep ==
    /\ route.pc = "replaying"
    /\ ReplayGoesOn(route.sim[1])
    /\ LET applied == ApplyInputs(route.sim[1], route.inputs, route.currentInputIdx,
                                  route.sim[1].state.tick)
       IN route' = [route EXCEPT !.sim = <<Tick(applied.sim)>>,
                                 !.currentInputIdx = applied.currentInputIdx]
    /\ UNCHANGED <<db, page, request, responses, engineVars, restVars>>

\* the replay loop has ended: the run is settled and the response reveals the
\* server seed
RouteSettle ==
    /\ route.pc = "replaying"
    /\ ~ReplayGoesOn(route.sim[1])
    /\ LET finalState == route.sim[1].state
       IN /\ db' = SettleTransaction(db, route.body, finalState)
          /\ responses' = Append(responses,
                [ route |-> "complete", status |-> 200,
                  body |-> [ success |-> TRUE,
                             verifiedBankroll |-> BigIntToString(finalState.bankroll),
                             serverSeed |-> db.runs[CHOOSE i \in FindRun(db, route.body.runId) : TRUE].serverSeed ] ])
    /\ route' = [route EXCEPT !.pc = "done"]
    /\ UNCHANGED <<page, request, engineVars, restVars>>

NextRoute ==
    \/ PostStart
    \/ MountCanvas
    \/ PageTick
    \/ PageInput
    \/ PageCheckpoint
    \/ PageGameOver
    \/ TamperedPost
    \/ RouteBegin
    \/ ReplayStep
    \/ RouteSettle

SpecRoute == InitRoute /\ [][NextRoute]_vars

\* ------------------------------------------------------------------------
\* Properties of the routes
\* ------------------------------------------------------------------------
\* the run row the completion route is working on
RouteRun == db.runs[CHOOSE i \in FindRun(db, route.body.runId) : TRUE]

\* C1: the completion route's replay of a live run of the page, from the
\* run's seeds and parameters and the recorded input log, ends with the final
\* bankroll and the exit type of the live engine
C1_ReplayMatchesLive ==
    (route.pc = "done" /\ page.sim # <<>>) =>
        /\ route.sim[1].state.bankroll = page.sim[1].state.bankroll
        /\ route.sim[1].state.exitType = page.sim[1].state.exitType

\* C7: a completion request whose claimed final bankroll or exit type differs
\* from what the replay computed is not answered with success
C7_MismatchReported ==
    \A i \in 1..Len(responses) :
        (responses[i].route = "complete" /\ responses[i].status = 200
            /\ responses[i].body.success) =>
            /\ route.body.finalBankroll = BigIntToString(route.sim[1].state.bankroll)
            /\ route.body.exitType = RecordedExitType(route.sim[1].state)

\* C8: the end bankroll and the exit type recorded for a run, and the amount
\* credited to the wallet, are those of the replayed engine, whatever the
\* request claimed
C8_SettlementFromReplay ==
    route.pc = "done" =>
        /\ RouteRun.endBankroll = route.sim[1].state.bankroll
        /\ RouteRun.exitType = RecordedExitType(route.sim[1].state)
        /\ db.user.balance = RouteRun.startWalletBalance - RouteRun.lockedBankroll
                               + route.sim[1].state.bankroll

\* a run was settled on a request whose claimed bankroll and exit type were
\* both wrong
C8_Witness ==
    /\ route.pc = "done"
    /\ route.body \in {[runId |-> RouteRun.id, inputs |-> route.body.inputs,
                        finalBankroll |-> c.finalBankroll, exitType |-> c.exitType] :
                          c \in ForgedClaims}
    /\ route.body.finalBankroll # BigIntToString(route.sim[1].state.bankroll)
    /\ route.body.exitType # RecordedExitType(route.sim[1].state)
    /\ RouteRun.endBankroll # StringToBigInt(route.body.finalBankroll)

\* C9: no response carries the server seed of a run before that run is
\* finalized
C9_SeedWithheld ==
    \A i \in 1..Len(responses) :
        "serverSeed" \in DOMAIN responses[i].body =>
            \E j \in 1..Len(db.runs) :
                /\ db.runs[j].serverSeed = responses[i].body.serverSeed
                /\ db.runs[j].exitType # NULL

\* C26: whatever the input log, the replay loop of the completion route makes
\* at most 36000 advances, each turn of the loop makes one, and the loop ends
\* with the engine terminal or with the tick at 36000
C26_ReplayBounded ==
    /\ [](route.sim # <<>> =>
             /\ route.sim[1].state.tick <= 36000
             /\ route.pc = "done" =>
                   (route.sim[1].state.isRunOver \/ route.sim[1].state.tick = 36000))
    /\ [][(route.pc = "replaying" /\ route' # route) =>
             \/ route'.sim[1].state.tick = route.sim[1].state.tick + 1
             \/ route'.pc = "done"]_vars

\* the replay of a log out of order, with three inputs of one tick, has
\* applied all but the input stamped beyond its last tick and ended in a loss
C26_Witness ==
    /\ route.pc = "done"
    /\ Len(route.inputs) = 5
    /\ route.currentInputIdx = 5
    /\ route.inputs[5].tick > 36000
    /\ route.inputs[2].tick = route.inputs[4].tick
    /\ route.sim[1].state.isRunOver
    /\ route.sim[1].state.exitType = "loss"

\* ------------------------------------------------------------------------
\* The backend server (server.ts): one run row, the sessions the socket
\* server built for it and the activeSessions map. The clock counts periods
\* of the game loop, 1000 / TICK_RATE ms each; the intervals of all sessions
\* run in step with it, and a timer runs at the clock value it was set for,
\* in any order with the socket events of that clock value. No session is
\* sent inputs, and no run is paused, so none has a snapshot.
\* ------------------------------------------------------------------------
\* the last clock value
MaxClock == 3800

\* no socket event and no request arrives between the first clock value and
\* this one
SocketQuietUntil == 3600

\* from then on they arrive every so many clock values
SocketStride == 60

\* the sockets that connect for the run, one after the other
Sockets == {"ws1", "ws2"}

\* setTimeout(..., 2000) in periods of the game loop
GRACE_PERIOD == (2000 * TICK_RATE) \div 1000

AtSocketTime(clock) ==
    clock = 0 \/ (clock >= SocketQuietUntil /\ clock % SocketStride = 0)

\* the run row a socket connects for
BackendRuns ==
    { [ id |-> id, serverSeed |-> <<49, 57>>, clientSeed |-> <<>>,
        lockedBankroll |-> 10000000, params |-> params, runCount |-> 1,
        exitType |-> NULL, endBankroll |-> NULL ] :
      id \in RunIds, params \in ParamSets }

InitBackend ==
    /\ \E run \in BackendRuns :
          backend = [ clock |-> 0, run |-> run, balance |-> 0,
                      activeSessions |-> <<>>, sessions |-> <<>> ]
    /\ sim = <<>>
    /\ lastCall = [op |-> "new", error |-> "none"]
    /\ restored = <<>>
    /\ NoWebSession
    /\ NoLibraryCalls
    /\ NoHandlers

\* the session of a new connection: run.snapshot is null, so the simulation
\* is a new one
NewSession(run) ==
    [ simulation |-> NewSimulation(CombineSeeds(run.serverSeed, run.clientSeed, run.id),
                                   run.params, run.lockedBankroll, run.runCount, 0),
      ws |-> "open",
      tickInterval |-> TRUE,
      graceTimer |-> <<>> ]

\* wss.on('connection'): the session is built and registered under the run id
WsConnect ==
    /\ AtSocketTime(backend.clock)
    /\ Len(backend.sessions) < Cardinality(Sockets)
    /\ backend' = [backend EXCEPT
                     !.sessions = Append(@, NewSession(backend.run)),
                     !.activeSessions = <<Len(backend.sessions) + 1>>]
    /\ UNCHANGED <<engineVars, routeVars, gen, handlers>>

\* the callback of setInterval of a session
OnInterval(session) ==
    IF ~session.tickInterval
    THEN session
    ELSE IF session.simulation.state.isRunOver
         THEN [session EXCEPT !.tickInterval = FALSE]
         ELSE [session EXCEPT !.simulation = Tick(@)]

TimerDue(b) ==
    \E k \in 1..Len(b.sessions) :
        b.sessions[k].graceTimer # <<>> /\ b.sessions[k].graceTimer[1] <= b.clock

\* a period of the game loop passes: every interval still set runs once
TimePasses ==
    /\ backend.clock < MaxClock
    /\ ~TimerDue(backend)
    /\ backend' = [backend EXCEPT
                     !.clock = @ + 1,
                     !.sessions = [k \in 1..Len(backend.sessions) |->
                                      OnInterval(backend.sessions[k])]]
    /\ UNCHANGED <<engineVars, routeVars, gen, handlers>>

\* ws.on('close'): the socket was closed by the client, or the close that
\* finalizeRun() asked for is done; the interval is cleared and the timer of
\* the grace period set
WsClose ==
    /\ \E k \in 1..Len(backend.sessions) :
          /\ \/ backend.sessions[k].ws = "open" /\ AtSocketTime(backend.clock)
             \/ backend.sessions[k].ws = "closing"
          /\ backend' = [backend EXCEPT
                           !.sessions[k].ws = "closed",
                           !.sessions[k].tickInterval = FALSE,
                           !.sessions[k].graceTimer = <<backend.clock + GRACE_PERIOD>>]
    /\ UNCHANGED <<engineVars, routeVars, gen, handlers>>

\* finalizeRun(session, exitType)
FinalizeRun(b, k, exitType) ==
    LET endBankroll == b.sessions[k].simulation.state.bankroll
    IN [b EXCEPT !.run.endBankroll = endBankroll,
                 !.run.exitType = exitType,
                 !.balance = @ + endBankroll,
                 !.sessions[k].ws = IF @ = "open" THEN "closing" ELSE @,
                 !.sessions[k].tickInterval = FALSE]

\* the callback of the timer that forfeits whatever session closed
OnGraceTimeoutOfAnySession(b, k) ==
    LET state == b.sessions[k].simulation.state
        b1 == IF ~state.isRunOver /\ ~state.isCheckpointWindow
              THEN FinalizeRun([b EXCEPT !.sessions[k].simulation = Forfeit(@).sim],
                               k, "forfeit")
              ELSE b
    IN [b1 EXCEPT !.sessions[k].graceTimer = <<>>, !.activeSessions = <<>>]

\* the callback given to setTimeout by ws.on('close')
OnGraceTimeout(b, k) ==
    IF b.activeSessions = <<k>>
    THEN LET state == b.sessions[k].simulation.state
             b1 == IF ~state.isRunOver /\ ~state.isCheckpointWindow
                   THEN FinalizeRun([b EXCEPT !.sessions[k].simulation = Forfeit(@).sim],
                                    k, "forfeit")
                   ELSE b
         IN [b1 EXCEPT !.sessions[k].graceTimer = <<>>, !.activeSessions = <<>>]
    ELSE [b EXCEPT !.sessions[k].graceTimer = <<>>]

GraceTimerFires ==
    /\ \E k \in 1..Len(backend.sessions) :
          /\ backend.sessions[k].graceTimer # <<>>
          /\ backend.sessions[k].graceTimer[1] <= backend.clock
          /\ backend' = OnGraceTimeout(backend, k)
    /\ UNCHANGED <<engineVars, routeVars, gen, handlers>>

\* POST /run/checkpoint/exit for the registered session; exitSafe() throwing
\* is answered with status 400 and changes nothing
CheckpointExit ==
    /\ AtSocketTime(backend.clock)
    /\ backend.activeSessions # <<>>
    /\ LET k == backend.activeSessions[1]
           exit == ExitSafe(backend.sessions[k].simulation)
       IN /\ ExitCalls(backend.sessions[k].simulation) < MaxExitCalls
          /\ exit.error = "none"
          /\ backend' = FinalizeRun([backend EXCEPT !.sessions[k].simulation = exit.sim],
                                    k, "safe")
    /\ UNCHANGED <<engineVars, routeVars, gen, handlers>>

NextBackend == WsConnect \/ TimePasses \/ WsClose \/ GraceTimerFires \/ CheckpointExit

SpecBackend == InitBackend /\ [][NextBackend]_vars

ForfeitedNow(k) ==
    /\ backend.sessions[k].simulation.state.exitType # "forfeit"
    /\ backend'.sessions[k].simulation.state.exitType = "forfeit"

ClosedNow(k) ==
    /\ backend.sessions[k].ws # "closed"
    /\ backend'.sessions[k].ws = "closed"

GraceTimerRan(k) ==
    /\ backend.sessions[k].graceTimer # <<>>
    /\ backend'.sessions[k].graceTimer = <<>>

\* C28: the registered session is always the newest one; the close of a
\* socket forfeits nothing and sets a timer for 120 periods (2000 ms) later,
\* which stays as set until it runs; the engine of a session is forfeited,
\* and the run row written as forfeited, only in a step in which the
\* session's socket is closed, the clock has reached the time of its timer,
\* no newer session exists, and the engine is neither terminal nor in a
\* checkpoint window; and when the timer of a closed session runs after a
\* newer session was registered, nothing is forfeited and the map is left as
\* it is
C28_GraceBeforeForfeit ==
    /\ [](backend.activeSessions # <<>> =>
              backend.activeSessions[1] = Len(backend.sessions))
    /\ [][\A k \in 1..Len(backend.sessions) :
             /\ ForfeitedNow(k) =>
                   /\ backend.sessions[k].ws = "closed"
                   /\ backend.sessions[k].graceTimer # <<>>
                   /\ backend.clock >= backend.sessions[k].graceTimer[1]
                   /\ k = Len(backend.sessions)
                   /\ backend.activeSessions = <<k>>
                   /\ ~backend.sessions[k].simulation.state.isRunOver
                   /\ ~backend.sessions[k].simulation.state.isCheckpointWindow
             /\ ClosedNow(k) =>
                   /\ backend'.sessions[k].graceTimer = <<backend.clock + 120>>
                   /\ ~ForfeitedNow(k)
             /\ (backend.sessions[k].graceTimer # <<>> /\ ~GraceTimerRan(k)) =>
                   backend'.sessions[k].graceTimer = backend.sessions[k].graceTimer
             /\ (GraceTimerRan(k) /\ k < Len(backend.sessions)) =>
                   /\ backend'.sessions[k].simulation = backend.sessions[k].simulation
                   /\ backend'.activeSessions = backend.activeSessions
                   /\ backend'.run = backend.run
                   /\ backend'.balance = backend.balance]_vars
    /\ [][(backend'.run.exitType = "forfeit" /\ backend.run.exitType # "forfeit") =>
             \E k \in 1..Len(backend.sessions) : ForfeitedNow(k)]_vars

\* the timer of the first session has run after a second session connected
\* within the grace period: the first session's engine, outside a checkpoint
\* window, is not forfeited, and the second session is the registered one
C28_Witness ==
    /\ Len(backend.sessions) = 2
    /\ backend.sessions[1].ws = "closed"
    /\ backend.sessions[1].graceTimer = <<>>
    /\ ~backend.sessions[1].simulation.state.isRunOver
    /\ ~backend.sessions[1].simulation.state.isCheckpointWindow
    /\ backend.sessions[1].simulation.state.tick > 0
    /\ backend.sessions[2].simulation.state.tick \in 1..119
    /\ backend.activeSessions = <<2>>
    /\ backend.sessions[2].ws = "open"
    /\ backend.run.exitType = NULL

\* C33: the run is finalized once at most: the wallet is credited with an
\* end bankroll only in a step that finds the run row not yet finalized
C33_FinalizedOnce ==
    [][backend'.balance # backend.balance => backend.run.exitType = NULL]_vars

\* ------------------------------------------------------------------------
\* Requests served at the same time. A handler runs from one await to the
\* next without interruption; a query it awaits is answered by the database
\* at some later moment, and other handlers run in between.
\* ------------------------------------------------------------------------
\* the requests in flight
MaxHandlers == 2

\* a run row as the start route creates it, and the user row after the debit
RaceRuns ==
    { [ id |-> id, difficulty |-> params.difficulty, percentMin |-> params.percentMin,
        percentMax |-> params.percentMax, curveMode |-> params.curveMode,
        serverSeed |-> serverSeed, seedCommit |-> HashSeed(serverSeed),
        clientSeed |-> <<>>, startWalletBalance |-> 100, lockedBankroll |-> 20,
        currentBankroll |-> 20, runNonce |-> 1, exitType |-> NULL,
        endBankroll |-> NULL, eventsDigest |-> NULL ] :
      id \in RunIds, params \in ParamSets, serverSeed \in RouteServerSeeds }

InitCompleteRace ==
    /\ \E run \in RaceRuns :
          db = [user |-> [balance |-> 80, runCount |-> 1], runs |-> <<run>>]
    /\ sim = <<>>
    /\ lastCall = [op |-> "none", error |-> "none"]
    /\ restored = <<>>
    /\ page = [runData |-> <<>>, sim |-> <<>>, inputs |-> <<>>, completed |-> FALSE]
    /\ request = <<>>
    /\ route = [pc |-> "idle", body |-> <<>>, sim |-> <<>>, inputs |-> <<>>,
                currentInputIdx |-> 0]
    /\ responses = <<>>
    /\ NoLibraryCalls
    /\ NoBackend
    /\ NoHandlers

\* a completion request for the run arrives: POST up to its await of
\* prisma.run.findUnique
CompleteArrives ==
    /\ Len(handlers) < MaxHandlers
    /\ \E claim \in ForgedClaims :
          handlers' = Append(handlers,
              [ route |-> "complete", pc |-> "findUnique",
                body |-> [ runId |-> db.runs[1].id, inputs |-> <<>>,
                           finalBankroll |-> claim.finalBankroll,
                           exitType |-> claim.exitType ],
                run |-> <<>>, sim |-> <<>>, inputs |-> <<>>, currentInputIdx |-> 0,
                status |-> 0 ])
    /\ UNCHANGED <<engineVars, routeVars, gen, backend>>

\* the database answers findUnique with the row as it is now
CompleteFindUnique ==
    /\ \E k \in 1..Len(handlers) :
          /\ handlers[k].route = "complete"
          /\ handlers[k].pc = "findUnique"
          /\ handlers' = [handlers EXCEPT
                ![k].run = [i \in 1..Cardinality(FindRun(db, handlers[k].body.runId)) |->
                               db.runs[CHOOSE j \in FindRun(db, handlers[k].body.runId) : TRUE]],
                ![k].pc = "found"]
    /\ UNCHANGED <<engineVars, routeVars, gen, backend>>

Replaying(k) == handlers[k].route = "complete" /\ handlers[k].pc = "replaying"

\* POST from the answer of findUnique to its replay loop: a finished run is
\* refused, the simulation is built from the row read and the inputs sorted
CompleteBegin ==
    /\ \E k \in 1..Len(handlers) :
          /\ handlers[k].route = "complete"
          /\ handlers[k].pc = "found"
          /\ \A j \in 1..Len(handlers) : ~Replaying(j)
          /\ IF handlers[k].run = <<>>
             THEN handlers' = [handlers EXCEPT ![k].pc = "done", ![k].status = 404]
             ELSE LET run == handlers[k].run[1]
                      params == [ difficulty |-> run.difficulty,
                                  percentMin |-> run.percentMin,
                                  percentMax |-> run.percentMax,
                                  curveMode |-> run.curveMode ]
                      finalSeed == CombineSeeds(run.serverSeed, run.clientSeed, run.id)
                  IN IF run.exitType # NULL
                     THEN handlers' = [handlers EXCEPT ![k].pc = "done", ![k].status = 400]
                     ELSE handlers' = [handlers EXCEPT
                            ![k].pc = "replaying",
                            ![k].sim = <<NewSimulation(finalSeed, params,
                                                       run.lockedBankroll, run.runNonce, 0)>>,
                            ![k].inputs = SortByTick(handlers[k].body.inputs),
                            ![k].currentInputIdx = 1]
    /\ UNCHANGED <<engineVars, routeVars, gen, backend>>

\* one turn of the replay loop, or its end and the await of the transaction
CompleteReplay ==
    /\ \E k \in 1..Len(handlers) :
          /\ Replaying(k)
          /\ IF ReplayGoesOn(handlers[k].sim[1])
             THEN LET applied == ApplyInputs(handlers[k].sim[1], handlers[k].inputs,
                                             handlers[k].currentInputIdx,
                                             handlers[k].sim[1].state.tick)
                  IN handlers' = [handlers EXCEPT
                         ![k].sim = <<Tick(applied.sim)>>,
                         ![k].currentInputIdx = applied.currentInputIdx]
             ELSE handlers' = [handlers EXCEPT ![k].pc = "transaction"]
    /\ UNCHANGED <<engineVars, routeVars, gen, backend>>

\* the database runs the settling transaction, and the response is sent
CompleteTransaction ==
    /\ \E k \in 1..Len(handlers) :
          /\ handlers[k].route = "complete"
          /\ handlers[k].pc = "transaction"
          /\ db' = SettleTransaction(db, handlers[k].body, handlers[k].sim[1].state)
          /\ handlers' = [handlers EXCEPT ![k].pc = "done", ![k].status = 200]
    /\ UNCHANGED <<engineVars, page, request, route, responses, gen, backend>>

NextCompleteRace ==
    \/ CompleteArrives
    \/ CompleteFindUnique
    \/ CompleteBegin
    \/ CompleteReplay
    \/ CompleteTransaction

SpecCompleteRace == InitCompleteRace /\ [][NextCompleteRace]_vars

\* the requests that were not refused as already completed
PassedCompletedCheck ==
    {k \in 1..Len(handlers) :
        handlers[k].pc \in {"replaying", "transaction"} \/ handlers[k].status = 200}

\* C34: of the completion requests for one run, however their handlers
\* interleave, one at most passes the already-completed check, and the
\* settling transaction runs only on a run row that is not yet settled
C34_SettledOnce ==
    /\ [](Cardinality(PassedCompletedCheck) <= 1)
    /\ [][db' # db => db.runs[1].exitType = NULL]_vars

\* the amounts asked to be locked, of a wallet of 100
LockedAmounts == {60, 100}

InitStartRace ==
    /\ db = [user |-> [balance |-> 100, runCount |-> 0], runs |-> <<>>]
    /\ sim = <<>>
    /\ lastCall = [op |-> "none", error |-> "none"]
    /\ restored = <<>>
    /\ page = [runData |-> <<>>, sim |-> <<>>, inputs |-> <<>>, completed |-> FALSE]
    /\ request = <<>>
    /\ route = [pc |-> "idle", body |-> <<>>, sim |-> <<>>, inputs |-> <<>>,
                currentInputIdx |-> 0]
    /\ responses = <<>>
    /\ NoLibraryCalls
    /\ NoBackend
    /\ NoHandlers

\* app.post('/run/start') of the backend, with parameters that pass its
\* validation, up to its await of prisma.user.findUnique
StartArrives ==
    /\ Len(handlers) < MaxHandlers
    /\ \E amount \in LockedAmounts, params \in ParamSets :
          handlers' = Append(handlers,
              [ route |-> "start", pc |-> "findUnique",
                body |-> [lockedBankroll |-> BigIntToString(amount), params |-> params],
                user |-> <<>>, runNonce |-> 0, status |-> 0 ])
    /\ UNCHANGED <<engineVars, routeVars, gen, backend>>

\* the database answers findUnique with the user row as it is now
StartFindUnique ==
    /\ \E k \in 1..Len(handlers) :
          /\ handlers[k].route = "start"
          /\ handlers[k].pc = "findUnique"
          /\ handlers' = [handlers EXCEPT ![k].user = <<db.user>>, ![k].pc = "found"]
    /\ UNCHANGED <<engineVars, routeVars, gen, backend>>

\* the handler from the answer to its await of prisma.user.update: the
\* balance read is compared with the amount
StartCheckBalance ==
    /\ \E k \in 1..Len(handlers) :
          /\ handlers[k].route = "start"
          /\ handlers[k].pc = "found"
          /\ IF handlers[k].user[1].balance < StringToBigInt(handlers[k].body.lockedBankroll)
             THEN handlers' = [handlers EXCEPT ![k].pc = "done", ![k].status = 400]
             ELSE handlers' = [handlers EXCEPT ![k].pc = "update"]
    /\ UNCHANGED <<engineVars, routeVars, gen, backend>>

\* the database runs update: balance: { decrement: lockedAmount }
StartDebit ==
    /\ \E k \in 1..Len(handlers) :
          /\ handlers[k].route = "start"
          /\ handlers[k].pc = "update"
          /\ db' = [db EXCEPT !.user.balance =
                                  @ - StringToBigInt(handlers[k].body.lockedBankroll)]
          /\ handlers' = [handlers EXCEPT ![k].pc = "findFirst"]
    /\ UNCHANGED <<engineVars, page, request, route, responses, gen, backend>>

\* the database answers findFirst with the run of the highest nonce
StartFindLastRun ==
    /\ \E k \in 1..Len(handlers) :
          /\ handlers[k].route = "start"
          /\ handlers[k].pc = "findFirst"
          /\ LET nonces == {db.runs[i].runNonce : i \in 1..Len(db.runs)} \cup {0}
                 last == CHOOSE n \in nonces : \A m \in nonces : m <= n
             IN handlers' = [handlers EXCEPT ![k].runNonce = last + 1, ![k].pc = "create"]
    /\ UNCHANGED <<engineVars, routeVars, gen, backend>>

\* the database runs run.create
StartCreateRun ==
    /\ \E k \in 1..Len(handlers) :
          /\ handlers[k].route = "start"
          /\ handlers[k].pc = "create"
          /\ db' = [db EXCEPT !.runs = Append(@,
                [ id |-> <<114, 49 + Len(db.runs)>>,
                  params |-> handlers[k].body.params,
                  startWalletBalance |-> handlers[k].user[1].balance,
                  lockedBankroll |-> StringToBigInt(handlers[k].body.lockedBankroll),
                  currentBankroll |-> StringToBigInt(handlers[k].body.lockedBankroll),
                  runNonce |-> handlers[k].runNonce ])]
          /\ handlers' = [handlers EXCEPT ![k].pc = "count"]
    /\ UNCHANGED <<engineVars, page, request, route, responses, gen, backend>>

\* the database runs update: runCount: { increment: 1 }, and the response
\* is sent
StartCountRun ==
    /\ \E k \in 1..Len(handlers) :
          /\ handlers[k].route = "start"
          /\ handlers[k].pc = "count"
          /\ db' = [db EXCEPT !.user.runCount = @ + 1]
          /\ handlers' = [handlers EXCEPT ![k].pc = "done", ![k].status = 200]
    /\ UNCHANGED <<engineVars, page, request, route, responses, gen, backend>>

NextStartRace ==
    \/ StartArrives
    \/ StartFindUnique
    \/ StartCheckBalance
    \/ StartDebit
    \/ StartFindLastRun
    \/ StartCreateRun
    \/ StartCountRun

SpecStartRace == InitStartRace /\ [][NextStartRace]_vars

\* C35: however the run-start requests of a user interleave, an amount is
\* taken from the wallet only when the balance is then that amount or more,
\* and the balance is never negative
C35_NoOverdraft ==
    /\ [](db.user.balance >= 0)
    /\ [][db'.user.balance < db.user.balance =>
             db.user.balance >= db.user.balance - db'.user.balance]_vars

\* C37: when the replay of the completion route has ended, every input of
\* the log stamped with a tick from 0 up to the final tick has been passed to
\* processInput, and each input was passed when the engine stood at the tick
\* it is stamped with
C37_EveryInputReplayed ==
    /\ [](route.pc = "done" =>
             \A i \in 1..Len(route.inputs) :
                 (0 <= route.inputs[i].tick
                    /\ route.inputs[i].tick < route.sim[1].state.tick)
                     => i < route.currentInputIdx)
    /\ [][(route.pc = "replaying" /\ route'.pc = "replaying") =>
             \A i \in route.currentInputIdx..(route'.currentInputIdx - 1) :
                 route.inputs[i].tick = route.sim[1].state.tick]_vars

\* ------------------------------------------------------------------------
\* The backend's build of the engine (part_001) next to simulation.ts: the
\* two differ in maybeSpawnObstacle() and maybeSpawnReward() only
\* ------------------------------------------------------------------------
\* maybeSpawnObstacle() of the backend build: no look at the spawn lane, and
\* ground obstacles of 60 by 60
BackendMaybeSpawnObstacle(e) ==
    LET timeSinceLastSpawn == e.state.elapsedTime - e.lastObstacleSpawnTime
        r1 == RngNext(e.rng)
        r2 == RngNext(r1)
        isOverhead == RngValue(r2) * 10 < 4 * DRAW_DEN
        smp == SampleObstaclePct([e EXCEPT !.rng = r2])
        obstacle == [ id |-> [kind |-> "ob", n |-> e.nextEntityId],
                      x |-> Px(900),
                      y |-> IF isOverhead THEN Px(GROUND_Y - 120) ELSE Px(GROUND_Y),
                      type |-> IF isOverhead THEN "overhead" ELSE "ground",
                      width |-> IF isOverhead THEN Px(100) ELSE Px(60),
                      height |-> IF isOverhead THEN Px(40) ELSE Px(60),
                      pctBp |-> RoundToBp(smp.pct),
                      hit |-> FALSE ]
    IN IF timeSinceLastSpawn < MIN_SPAWN_GAP THEN e
       ELSE IF DrawBelowRate(r1, GetSpawnRates(e).lambdaOb)
       THEN [e EXCEPT !.rng = smp.rng,
                      !.nextEntityId = @ + 1,
                      !.state.obstacles = Append(@, obstacle),
                      !.lastObstacleSpawnTime = e.state.elapsedTime]
       ELSE [e EXCEPT !.rng = r1]

\* maybeSpawnReward() of the backend build: no look at the spawn lane
BackendMaybeSpawnReward(e) ==
    LET timeSinceLastSpawn == e.state.elapsedTime - e.lastRewardSpawnTime
        r1 == RngNext(e.rng)
        smp == SampleRewardPct([e EXCEPT !.rng = r1])
        r3 == RngNext(smp.rng)
        reward == [ id |-> [kind |-> "rw", n |-> e.nextEntityId],
                    x |-> Px(900),
                    y |-> Px(GROUND_Y - 20 - RngIntValue(r3, 0, 100)),
                    width |-> Px(30),
                    height |-> Px(30),
                    pctBp |-> RoundToBp(smp.pct),
                    collected |-> FALSE ]
    IN IF timeSinceLastSpawn < MIN_SPAWN_GAP THEN e
       ELSE IF DrawBelowRate(r1, GetSpawnRates(e).lambdaRw)
       THEN [e EXCEPT !.rng = r3,
                      !.nextEntityId = @ + 1,
                      !.state.rewards = Append(@, reward),
                      !.lastRewardSpawnTime = e.state.elapsedTime]
       ELSE [e EXCEPT !.rng = r1]

\* tick() of the backend build
BackendTick(e) ==
    IF e.state.isRunOver THEN e
    ELSE LET e1 == AdvanceClock(e)
             e2 == [e1 EXCEPT !.state = UpdatePlayer(@)]
             e3 == IF ~e2.state.isCheckpointWindow
                   THEN BackendMaybeSpawnReward(BackendMaybeSpawnObstacle(e2))
                   ELSE e2
             e4 == [e3 EXCEPT !.state = MoveEntities(@)]
             box == PlayerBox(e4.state)
             e5 == CollideRewards(CollideObstacles(e4, box, 1), box, 1)
             e6 == UpdateCheckpoint([e5 EXCEPT !.state = RemoveOffScreen(@)])
         IN RecordRngIndex(e6)

\* the last tick of the runs of the two builds
MaxBuildTick == 600

\* sim is an instance of simulation.ts, backend holds one of the backend
\* build made with the same arguments
InitBuilds ==
    /\ \E seed \in Seeds, params \in ParamSets, b \in Bankrolls, n \in RunCounts :
          /\ sim = NewSimulation(seed, params, b, n, 0)
          /\ backend = <<NewSimulation(seed, params, b, n, 0)>>
    /\ lastCall = [op |-> "new", error |-> "none"]
    /\ restored = <<>>
    /\ NoWebSession
    /\ NoLibraryCalls
    /\ NoHandlers

BuildsTick ==
    /\ sim.state.tick < MaxBuildTick
    /\ sim' = Tick(sim)
    /\ backend' = <<BackendTick(backend[1])>>
    /\ lastCall' = [op |-> "tick", error |-> "none"]
    /\ UNCHANGED <<restored, routeVars, gen, handlers>>

BuildsInput ==
    /\ AtCallTick(sim)
    /\ \E type \in InputTypes :
          LET input == [type |-> type, tick |-> sim.state.tick]
          IN /\ sim' = ProcessInput(sim, input)
             /\ backend' = <<ProcessInput(backend[1], input)>>
    /\ lastCall' = [op |-> "processInput", error |-> "none"]
    /\ UNCHANGED <<restored, routeVars, gen, handlers>>

NextBuilds == BuildsTick \/ BuildsInput

SpecBuilds == InitBuilds /\ [][NextBuilds]_vars

\* C38: given the same seed, parameters, run counter and inputs, the
\* backend's build of the engine and simulation.ts have the same state, the
\* same bankroll and the same events after every call
C38_BuildsAgree ==
    /\ backend[1].state = sim.state
    /\ backend[1].events = sim.events

\* ------------------------------------------------------------------------
\* The order of the event log
\* ------------------------------------------------------------------------
TerminalEventTypes == ExitEventTypes \cup {"loss"}

\* C39: after any sequence of tick, processInput, exitSafe, pause and forfeit
\* calls the ticks of the events never decrease, every loss event comes
\* right after an obstacle_hit event of the same tick, and the log holds at
\* most one terminal event (checkpoint_exit, checkpoint_pause, forfeit, loss)
C39_EventLogOrdered ==
    /\ \A i \in 1..(Len(sim.events) - 1) : sim.events[i].tick <= sim.events[i + 1].tick
    /\ \A i \in 1..Len(sim.events) :
          sim.events[i].type = "loss" =>
              /\ i > 1
              /\ sim.events[i - 1].type = "obstacle_hit"
              /\ sim.events[i - 1].tick = sim.events[i].tick
    /\ Cardinality({i \in 1..Len(sim.events) : sim.events[i].type \in TerminalEventTypes}) <= 1
====
